---------------------------- MODULE Spec2Model ----------------------------
(***************************************************************************)
(* Model of src/src/scripts/python-ast-parser.py (Archlette's Python       *)
(* extractor): the DocstringParser, the tree extractors and the batch      *)
(* driver main / parse_file.                                               *)
(*                                                                         *)
(* Strings are sequences of tokens.  A token is a piece of text that the   *)
(* program's regular expressions and string methods never split: a single  *)
(* white-space character (" " or "\n"), a single punctuation character, or *)
(* a maximal run of word characters (\w+).  The string a sequence stands   *)
(* for is the concatenation of its tokens, so "Args:\n" is                 *)
(* <<"Args", ":", "\n">>.  Python's None is the empty tuple and a present  *)
(* optional value v is the one-element tuple <<v>>.                        *)
(***************************************************************************)
EXTENDS Integers, Sequences, FiniteSets, TLC

(***************************************************************************)
(* Python values                                                           *)
(***************************************************************************)
None == <<>>

Some(v) == <<v>>

\* Truth value of an Optional[str]: None and '' are false.
Truthy(opt) == opt # None /\ opt[1] # <<>>

\* Python's `a or b` on Optional[str] values.
PyOr(a, b) == IF Truthy(a) THEN a ELSE b

\* A call either returns a value or raises an exception.
Return(v) == [ok |-> TRUE, val |-> v]

Raise(e) == [ok |-> FALSE, exc |-> e]

EmptyDict == [k \in {} |-> <<>>]

\* d[k] = v
Put(d, k, v) == [x \in (DOMAIN d) \cup {k} |-> IF x = k THEN v ELSE d[x]]

\* d.get(k)
Get(d, k) == IF k \in DOMAIN d THEN Some(d[k]) ELSE None

Min(S) == CHOOSE m \in S : \A n \in S : m <= n

Max(S) == CHOOSE m \in S : \A n \in S : n <= m

(***************************************************************************)
(* Token classes and string methods                                        *)
(***************************************************************************)
\* \s
Space == {" ", "\n"}

Punct == {":", "(", ")", "[", "]", "{", "}", "-", "@", ",", ".", "*", ">",
          "|", "="}

\* A token matched by \w+
IsWord(t) == t \notin Space /\ t \notin Punct

Take(s, n) == SubSeq(s, 1, n)

Drop(s, n) == SubSeq(s, n + 1, Len(s))

\* str.strip()
Strip(s) ==
    LET keep == {i \in 1..Len(s) : s[i] \notin Space}
    IN  IF keep = {} THEN <<>> ELSE SubSeq(s, Min(keep), Max(keep))

\* str.rstrip(':')
RStripColon(s) ==
    LET keep == {i \in 1..Len(s) : s[i] # ":"}
    IN  IF keep = {} THEN <<>> ELSE SubSeq(s, 1, Max(keep))

\* str.endswith(t) for a one-character t
EndsWith(s, t) == Len(s) > 0 /\ s[Len(s)] = t

\* str.startswith(' ' * n)
StartsWithSpaces(s, n) == Len(s) >= n /\ \A i \in 1..n : s[i] = " "

\* str.split(sep) for a one-character sep
RECURSIVE Split(_, _)
Split(s, sep) ==
    IF \A i \in 1..Len(s) : s[i] # sep
    THEN <<s>>
    ELSE LET i == Min({j \in 1..Len(s) : s[j] = sep})
         IN  <<SubSeq(s, 1, i - 1)>> \o Split(Drop(s, i), sep)

\* sep.join(parts)
RECURSIVE Join(_, _)
Join(parts, sep) ==
    IF parts = <<>> THEN <<>>
    ELSE IF Len(parts) = 1 THEN parts[1]
    ELSE parts[1] \o <<sep>> \o Join(Tail(parts), sep)

\* The index of the first token at or after i that is not white space
\* (Len(s) + 1 when there is none): where a greedy \s* started at i ends.
SkipSpaces(s, i) ==
    LET stop == {j \in i..Len(s) : s[j] \notin Space}
    IN  IF stop = {} THEN Len(s) + 1 ELSE Min(stop)

\* The index of the last token of a greedy .+ started at i (no DOTALL): the
\* token before the first "\n"; i - 1 when .+ cannot match at i.
DotPlusEnd(s, i) ==
    LET nl == {j \in i..Len(s) : s[j] = "\n"}
    IN  IF nl = {} THEN Len(s) ELSE Min(nl) - 1

\* s[i] exists and is the token t
TokAt(s, i, t) == i \in 1..Len(s) /\ s[i] = t

\* s[i] exists and is one of the tokens of T
TokIn(s, i, T) == i \in 1..Len(s) /\ s[i] \in T

\* s[i] exists and \w+ matches it
WordAt(s, i) == i \in 1..Len(s) /\ IsWord(s[i])

\* The token sequence kw occurs in s at index i
SeqAt(s, i, kw) ==
    /\ i >= 1
    /\ i + Len(kw) - 1 <= Len(s)
    /\ SubSeq(s, i, i + Len(kw) - 1) = kw

\* \s*\n started at i matches: the white-space run at i holds a line break.
\* The value is the set of indices right after a "\n" of that run, that is
\* the places where the rest of the pattern may start.
AfterNewline(s, i) ==
    {j + 1 : j \in {m \in i..(SkipSpaces(s, i) - 1) : s[m] = "\n"}}

(***************************************************************************)
(* DocstringParser: style detection                                        *)
(***************************************************************************)
\* The alternation of the regular expression of _is_google_style.
GoogleStyleNames ==
    {"Args", "Returns", "Yields", "Raises", "Note", "Example", "Attributes"}

\* The alternation of the regular expression of _is_numpy_style.
NumpyStyleNames ==
    {<<"Parameters">>, <<"Returns">>, <<"Yields">>, <<"Raises">>,
     <<"See", " ", "Also">>, <<"Notes">>, <<"Examples">>}

\* The alternation of the regular expression of _is_sphinx_style.
SphinxFieldNames ==
    {"param", "type", "return", "returns", "rtype", "raise", "raises"}

\* re.search(r'\n\s*(Args|...|Attributes):\s*\n', docstring)
_is_google_style(docstring) ==
    \E i \in 1..Len(docstring) :
        /\ docstring[i] = "\n"
        /\ LET j == SkipSpaces(docstring, i + 1)
           IN  /\ TokIn(docstring, j, GoogleStyleNames)
               /\ TokAt(docstring, j + 1, ":")
               /\ AfterNewline(docstring, j + 2) # {}

\* re.search(r'\n\s*(Parameters|...|Examples)\s*\n\s*-+\s*\n', docstring)
_is_numpy_style(docstring) ==
    \E i \in 1..Len(docstring) :
        /\ docstring[i] = "\n"
        /\ LET j == SkipSpaces(docstring, i + 1)
           IN  \E kw \in NumpyStyleNames :
                 /\ SeqAt(docstring, j, kw)
                 /\ AfterNewline(docstring, j + Len(kw)) # {}
                 /\ LET k  == SkipSpaces(docstring, j + Len(kw))
                        nd == {m \in k..Len(docstring) : docstring[m] # "-"}
                        k2 == IF nd = {} THEN Len(docstring) + 1 ELSE Min(nd)
                    IN  /\ TokAt(docstring, k, "-")
                        /\ AfterNewline(docstring, k2) # {}

\* re.search(r':(param|type|returns?|rtype|raises?)(\s+\w+)?:', docstring)
_is_sphinx_style(docstring) ==
    \E i \in 1..Len(docstring) :
        /\ docstring[i] = ":"
        /\ TokIn(docstring, i + 1, SphinxFieldNames)
        /\ \/ TokAt(docstring, i + 2, ":")
           \/ /\ TokIn(docstring, i + 2, Space)
              /\ LET j == SkipSpaces(docstring, i + 2)
                 IN  WordAt(docstring, j) /\ TokAt(docstring, j + 1, ":")

(***************************************************************************)
(* DocstringParser: section splitters                                      *)
(***************************************************************************)
\* section_keywords of _split_sections_google
GoogleSectionKeywords ==
    {<<"Args">>, <<"Arguments">>, <<"Returns">>, <<"Yields">>, <<"Raises">>,
     <<"Note">>, <<"Notes">>, <<"Example">>, <<"Examples">>, <<"Attributes">>}

\* section_keywords of _split_sections_numpy
NumpySectionKeywords ==
    {<<"Parameters">>, <<"Returns">>, <<"Yields">>, <<"Raises">>,
     <<"See", " ", "Also">>, <<"Notes">>, <<"Examples">>, <<"Attributes">>}

\* The "save previous section" / "save last section" block, which both
\* splitters hold twice: the lines gathered under current_section are stored
\* in sections.  The pre-header region is cut at its first blank line.
SaveSection(sections, current_section, current_lines) ==
    IF current_lines = <<>> THEN sections
    ELSE IF current_section = <<"summary">>
    THEN LET blank == {i \in 1..Len(current_lines) :
                          Strip(current_lines[i]) = <<>>}
             \* enumerate() counts from 0
             summary_end == IF blank = {} THEN 0 ELSE Min(blank) - 1
         IN  IF summary_end = 0
             THEN Put(sections, <<"summary">>,
                      Strip(Join(current_lines, " ")))
             ELSE Put(Put(sections, <<"summary">>,
                          Strip(Join(Take(current_lines, summary_end), " "))),
                      <<"description">>,
                      Strip(Join(Drop(current_lines, summary_end), " ")))
    ELSE Put(sections, current_section, Strip(Join(current_lines, "\n")))

\* The trimmed line is a Google section header
IsGoogleHeader(stripped) ==
    RStripColon(stripped) \in GoogleSectionKeywords /\ EndsWith(stripped, ":")

\* The for loop of _split_sections_google from line i on, and the final save
RECURSIVE SplitGoogleFrom(_, _, _, _, _)
SplitGoogleFrom(lines, i, sections, current_section, current_lines) ==
    IF i > Len(lines)
    THEN SaveSection(sections, current_section, current_lines)
    ELSE LET stripped == Strip(lines[i])
         IN  IF IsGoogleHeader(stripped)
             THEN SplitGoogleFrom(lines, i + 1,
                      SaveSection(sections, current_section, current_lines),
                      RStripColon(stripped), <<>>)
             ELSE SplitGoogleFrom(lines, i + 1, sections, current_section,
                      Append(current_lines, lines[i]))

_split_sections_google(lines) ==
    SplitGoogleFrom(lines, 1, EmptyDict, <<"summary">>, <<>>)

\* re.match(r'^-+$', next_line)
IsDashes(next_line) ==
    /\ next_line # <<>>
    /\ \A k \in 1..Len(next_line) : next_line[k] = "-"

\* Line i is a NumPy section header: a keyword with dashes on the next line
IsNumpyHeader(lines, i) ==
    /\ i + 1 <= Len(lines)
    /\ Strip(lines[i]) \in NumpySectionKeywords
    /\ IsDashes(Strip(lines[i + 1]))

\* The while loop of _split_sections_numpy from line i on, and the final save
RECURSIVE SplitNumpyFrom(_, _, _, _, _)
SplitNumpyFrom(lines, i, sections, current_section, current_lines) ==
    IF i > Len(lines)
    THEN SaveSection(sections, current_section, current_lines)
    ELSE IF IsNumpyHeader(lines, i)
         THEN SplitNumpyFrom(lines, i + 2,
                  SaveSection(sections, current_section, current_lines),
                  Strip(lines[i]), <<>>)
         ELSE SplitNumpyFrom(lines, i + 1, sections, current_section,
                  Append(current_lines, lines[i]))

_split_sections_numpy(lines) ==
    SplitNumpyFrom(lines, 1, EmptyDict, <<"summary">>, <<>>)

(***************************************************************************)
(* DocstringParser: Google field parsers                                   *)
(***************************************************************************)
\* The tail \s*:\s*(.+) of the field patterns, matched from index i of s.
\* The value is None when it does not match and Some(group) when it does.
\* dotall is TRUE under re.DOTALL, where "." also matches "\n".
ColonRest(s, i, dotall) ==
    LET i2 == SkipSpaces(s, i)
        i3 == SkipSpaces(s, i2 + 1)
        \* only white space follows the colon: \s* gives characters back
        \* from the right until "." can match one
        back == {p \in (i2 + 1)..Len(s) : dotall \/ s[p] # "\n"}
    IN  IF ~TokAt(s, i2, ":") THEN None
        ELSE IF i3 <= Len(s)
        THEN Some(SubSeq(s, i3, IF dotall THEN Len(s) ELSE DotPlusEnd(s, i3)))
        ELSE IF back = {} THEN None
        ELSE Some(<<s[Max(back)]>>)

\* re.match(r'(\w+)\s*(?:\(([^)]+)\))?\s*:\s*(.+)', stripped): None, or the
\* entry built from groups 1, 2 and 3.
MatchArgGoogle(stripped) ==
    LET s      == stripped
        i1     == SkipSpaces(s, 2)
        close  == {j \in (i1 + 1)..Len(s) : s[j] = ")"}
        j      == IF close = {} THEN 0 ELSE Min(close)
        \* \(([^)]+)\) needs at least one character between the brackets
        typed  == IF TokAt(s, i1, "(") /\ j >= i1 + 2
                  THEN ColonRest(s, j + 1, FALSE) ELSE None
        plain  == ColonRest(s, i1, FALSE)
    IN  IF ~WordAt(s, 1) THEN None
        ELSE IF typed # None
        THEN Some([name |-> <<s[1]>>,
                   type |-> Some(SubSeq(s, i1 + 1, j - 1)),
                   description |-> typed[1]])
        ELSE IF plain # None
        THEN Some([name |-> <<s[1]>>, type |-> None, description |-> plain[1]])
        ELSE None

\* The closing lines "if current_arg: args.append(current_arg)"
Flush(entries, current) ==
    IF current # None THEN Append(entries, current[1]) ELSE entries

\* The for loop of _parse_args_google from line i on
RECURSIVE ArgsGoogleFrom(_, _, _, _)
ArgsGoogleFrom(lines, i, args, current_arg) ==
    IF i > Len(lines) THEN Flush(args, current_arg)
    ELSE LET line     == lines[i]
             stripped == Strip(line)
             match    == MatchArgGoogle(stripped)
         IN  IF stripped = <<>>
             THEN ArgsGoogleFrom(lines, i + 1, args, current_arg)
             ELSE IF ~StartsWithSpaces(line, 8)
             THEN IF match # None
                  THEN ArgsGoogleFrom(lines, i + 1, Flush(args, current_arg),
                                      match)
                  ELSE ArgsGoogleFrom(lines, i + 1, args, current_arg)
             ELSE IF current_arg # None
             THEN ArgsGoogleFrom(lines, i + 1, args,
                      Some([current_arg[1] EXCEPT
                               !.description = @ \o <<" ">> \o stripped]))
             ELSE ArgsGoogleFrom(lines, i + 1, args, current_arg)

\* args_text is an Optional[str]: None has no split method.
_parse_args_google(args_text) ==
    IF args_text = None
    THEN Raise("'NoneType' object has no attribute 'split'")
    ELSE Return(ArgsGoogleFrom(Split(args_text[1], "\n"), 1, <<>>, None))

\* re.match(r'(\w+(?:\[.*?\])?)\s*:\s*(.+)', stripped, re.DOTALL)
_parse_returns_google(returns_text) ==
    LET s       == Strip(returns_text)
        \* the lazy .*? ends at the first "]" after which the tail matches
        close   == {j \in 3..Len(s) :
                       s[j] = "]" /\ ColonRest(s, j + 1, TRUE) # None}
        j       == IF close = {} THEN 0 ELSE Min(close)
        plain   == ColonRest(s, 2, TRUE)
    IN  IF WordAt(s, 1) /\ TokAt(s, 2, "[") /\ j > 0
        THEN [type |-> Some(SubSeq(s, 1, j)),
              description |-> Some(Strip(ColonRest(s, j + 1, TRUE)[1]))]
        ELSE IF WordAt(s, 1) /\ plain # None
        THEN [type |-> Some(<<s[1]>>), description |-> Some(Strip(plain[1]))]
        ELSE [type |-> None, description |-> Some(s)]

\* re.match(r'(\w+)\s*:\s*(.+)', stripped)
MatchRaiseGoogle(stripped) ==
    LET rest == ColonRest(stripped, 2, FALSE)
    IN  IF WordAt(stripped, 1) /\ rest # None
        THEN Some([type |-> <<stripped[1]>>, description |-> rest[1]])
        ELSE None

\* The for loop of _parse_raises_google from line i on
RECURSIVE RaisesGoogleFrom(_, _, _, _)
RaisesGoogleFrom(lines, i, raises, current_raise) ==
    IF i > Len(lines) THEN Flush(raises, current_raise)
    ELSE LET line     == lines[i]
             stripped == Strip(line)
             match    == MatchRaiseGoogle(stripped)
         IN  IF stripped = <<>>
             THEN RaisesGoogleFrom(lines, i + 1, raises, current_raise)
             ELSE IF ~StartsWithSpaces(line, 8)
             THEN IF match # None
                  THEN RaisesGoogleFrom(lines, i + 1,
                                        Flush(raises, current_raise), match)
                  ELSE RaisesGoogleFrom(lines, i + 1, raises, current_raise)
             ELSE IF current_raise # None
             THEN RaisesGoogleFrom(lines, i + 1, raises,
                      Some([current_raise[1] EXCEPT
                               !.description = @ \o <<" ">> \o stripped]))
             ELSE RaisesGoogleFrom(lines, i + 1, raises, current_raise)

_parse_raises_google(raises_text) ==
    RaisesGoogleFrom(Split(raises_text, "\n"), 1, <<>>, None)

(***************************************************************************)
(* DocstringParser: NumPy field parsers                                    *)
(***************************************************************************)
\* The description of a NumPy entry grown by one line
AddDescription(entry, stripped) ==
    [entry EXCEPT !.description =
        IF @ # <<>> THEN @ \o <<" ">> \o stripped ELSE stripped]

\* stripped.split(':', 1) of a line that holds a colon
NumpyArgEntry(stripped) ==
    LET c == Min({k \in 1..Len(stripped) : stripped[k] = ":"})
    IN  [name |-> Strip(Take(stripped, c - 1)),
         type |-> Some(Strip(Drop(stripped, c))),
         description |-> <<>>]

\* The for loop of _parse_args_numpy from line i on
RECURSIVE ArgsNumpyFrom(_, _, _, _)
ArgsNumpyFrom(lines, i, args, current_arg) ==
    IF i > Len(lines) THEN Flush(args, current_arg)
    ELSE LET line     == lines[i]
             stripped == Strip(line)
         IN  IF stripped = <<>>
             THEN ArgsNumpyFrom(lines, i + 1, args, current_arg)
             ELSE IF (\E k \in 1..Len(stripped) : stripped[k] = ":")
                     /\ ~StartsWithSpaces(line, 4)
             THEN ArgsNumpyFrom(lines, i + 1, Flush(args, current_arg),
                                Some(NumpyArgEntry(stripped)))
             ELSE IF current_arg # None
             THEN ArgsNumpyFrom(lines, i + 1, args,
                                Some(AddDescription(current_arg[1], stripped)))
             ELSE ArgsNumpyFrom(lines, i + 1, args, current_arg)

_parse_args_numpy(args_text) ==
    ArgsNumpyFrom(Split(args_text, "\n"), 1, <<>>, None)

\* '...' if '...' else None
NoneIfEmpty(text) == IF text # <<>> THEN Some(text) ELSE None

_parse_returns_numpy(returns_text) ==
    LET lines       == Split(Strip(returns_text), "\n")
        return_type == Strip(lines[1])
        NonBlank(l) == Strip(l) # <<>>
        rest        == SelectSeq(Tail(lines), NonBlank)
        description == Join([k \in 1..Len(rest) |-> Strip(rest[k])], " ")
    IN  [type |-> NoneIfEmpty(return_type),
         description |-> NoneIfEmpty(description)]

\* The for loop of _parse_raises_numpy from line i on
RECURSIVE RaisesNumpyFrom(_, _, _, _)
RaisesNumpyFrom(lines, i, raises, current_raise) ==
    IF i > Len(lines) THEN Flush(raises, current_raise)
    ELSE LET line     == lines[i]
             stripped == Strip(line)
         IN  IF stripped = <<>>
             THEN RaisesNumpyFrom(lines, i + 1, raises, current_raise)
             ELSE IF ~StartsWithSpaces(line, 4)
             THEN RaisesNumpyFrom(lines, i + 1, Flush(raises, current_raise),
                      Some([type |-> stripped, description |-> <<>>]))
             ELSE IF current_raise # None
             THEN RaisesNumpyFrom(lines, i + 1, raises,
                      Some(AddDescription(current_raise[1], stripped)))
             ELSE RaisesNumpyFrom(lines, i + 1, raises, current_raise)

_parse_raises_numpy(raises_text) ==
    RaisesNumpyFrom(Split(raises_text, "\n"), 1, <<>>, None)

(***************************************************************************)
(* DocstringParser: Sphinx and simple parsers                              *)
(***************************************************************************)
\* The first while loop of _parse_sphinx from line i on: the summary lines,
\* the description lines and the index (from 1) of the line it stopped at.
RECURSIVE SphinxHeadFrom(_, _, _, _, _)
SphinxHeadFrom(lines, i, summary_lines, description_lines, in_summary) ==
    IF i > Len(lines)
    THEN [summary_lines |-> summary_lines,
          description_lines |-> description_lines, i |-> i]
    ELSE LET line == Strip(lines[i])
         IN  IF line = <<>>
             THEN SphinxHeadFrom(lines, i + 1, summary_lines,
                                 description_lines, FALSE)
             ELSE IF line[1] = ":"
             THEN [summary_lines |-> summary_lines,
                   description_lines |-> description_lines, i |-> i]
             ELSE IF in_summary
             THEN SphinxHeadFrom(lines, i + 1, Append(summary_lines, line),
                                 description_lines, in_summary)
             ELSE SphinxHeadFrom(lines, i + 1, summary_lines,
                                 Append(description_lines, line), in_summary)

\* re.match(r':<name>\s+(\w+):\s*(.+)', line) for a name of names: None, or
\* the pair of groups 1 and 2.
MatchNamedField(line, names) ==
    LET j    == SkipSpaces(line, 3)
        rest == ColonRest(line, j + 1, FALSE)
    IN  IF /\ TokAt(line, 1, ":")
           /\ TokIn(line, 2, names)
           /\ TokIn(line, 3, Space)
           /\ WordAt(line, j)
           /\ TokAt(line, j + 1, ":")
           /\ rest # None
        THEN Some(<<(<<line[j]>>), rest[1]>>)
        ELSE None

\* re.match(r':<name>:\s*(.+)', line) for a name of names: None or group 1.
MatchPlainField(line, names) ==
    IF TokAt(line, 1, ":") /\ TokIn(line, 2, names) /\ TokAt(line, 3, ":")
    THEN ColonRest(line, 3, FALSE)
    ELSE None

\* result['returns'][key] = value, creating the dict when it is None
SetReturns(returns, key, value) ==
    Some(Put(IF returns = None THEN EmptyDict ELSE returns[1], key, Some(value)))

\* A :type line that finds no entry to update
BackFillNothing(args, name, param_type) == args

\* "Update existing param if already added": the loop over result['args']
\* of the :type branch
BackFillType(args, name, param_type) ==
    [k \in 1..Len(args) |->
        IF args[k].name = name
        THEN [args[k] EXCEPT !.type = Some(param_type)]
        ELSE args[k]]

\* The field-list loop of _parse_sphinx from line i on; result carries the
\* fields found so far.
RECURSIVE SphinxFieldsFrom(_, _, _, _)
SphinxFieldsFrom(lines, i, result, param_types) ==
    IF i > Len(lines) THEN result
    ELSE LET line         == Strip(lines[i])
             param_match  == MatchNamedField(line, {"param"})
             type_match   == MatchNamedField(line, {"type"})
             return_match == MatchPlainField(line, {"return", "returns"})
             rtype_match  == MatchPlainField(line, {"rtype"})
             raises_match == MatchNamedField(line, {"raise", "raises"})
         IN  IF param_match # None
             THEN LET name == param_match[1][1]
                      desc == param_match[1][2]
                  IN  SphinxFieldsFrom(lines, i + 1,
                          [result EXCEPT !.args = Append(@,
                              [name |-> name,
                               type |-> Get(param_types, name),
                               description |-> desc])],
                          param_types)
             ELSE IF type_match # None
             THEN LET name       == type_match[1][1]
                      param_type == type_match[1][2]
                  IN  SphinxFieldsFrom(lines, i + 1,
                          [result EXCEPT !.args =
                              BackFillType(@, name, param_type)],
                          Put(param_types, name, param_type))
             ELSE IF return_match # None
             THEN SphinxFieldsFrom(lines, i + 1,
                      [result EXCEPT !.returns =
                          SetReturns(@, "description", return_match[1])],
                      param_types)
             ELSE IF rtype_match # None
             THEN SphinxFieldsFrom(lines, i + 1,
                      [result EXCEPT !.returns =
                          SetReturns(@, "type", rtype_match[1])],
                      param_types)
             ELSE IF raises_match # None
             THEN SphinxFieldsFrom(lines, i + 1,
                      [result EXCEPT !.raises = Append(@,
                          [type |-> raises_match[1][1],
                           description |-> raises_match[1][2]])],
                      param_types)
             ELSE SphinxFieldsFrom(lines, i + 1, result, param_types)

\* ' '.join(lines) if lines else None
JoinOrNone(lines) == IF lines # <<>> THEN Some(Join(lines, " ")) ELSE None

_parse_sphinx(docstring) ==
    LET lines == Split(docstring, "\n")
        head  == SphinxHeadFrom(lines, 1, <<>>, <<>>, TRUE)
        result == [summary |-> JoinOrNone(head.summary_lines),
                   description |-> JoinOrNone(head.description_lines),
                   args |-> <<>>,
                   returns |-> None,
                   raises |-> <<>>,
                   examples |-> None]
    IN  SphinxFieldsFrom(lines, head.i, result, EmptyDict)

\* The lines _parse_simple keeps: trimmed, not empty, not starting with '@'
SimpleLines(docstring) ==
    LET lines   == Split(docstring, "\n")
        Kept(l) == Strip(l) # <<>> /\ Strip(l)[1] # "@"
        kept    == SelectSeq(lines, Kept)
    IN  [k \in 1..Len(kept) |-> Strip(kept[k])]

_parse_simple(docstring) ==
    LET kept == SimpleLines(docstring)
    IN  [summary |-> IF kept # <<>> THEN Some(kept[1]) ELSE None,
         description |-> IF kept # <<>> THEN JoinOrNone(Tail(kept)) ELSE None,
         args |-> <<>>,
         returns |-> None,
         raises |-> <<>>,
         examples |-> None]

(***************************************************************************)
(* DocstringParser: parse                                                  *)
(***************************************************************************)
\* EmptyDocModel with empty strings in place of the absent fields
EmptyDocModelBlank ==
    [summary |-> Some(<<>>),
     description |-> Some(<<>>),
     args |-> <<>>,
     returns |-> None,
     raises |-> <<>>,
     examples |-> Some(<<>>)]

\* The record parse returns for an absent or empty docstring
EmptyDocModel ==
    [summary |-> None,
     description |-> None,
     args |-> <<>>,
     returns |-> None,
     raises |-> <<>>,
     examples |-> None]

_parse_google(docstring) ==
    LET lines     == Split(docstring, "\n")
        sections  == _split_sections_google(lines)
        result    == [summary |-> Get(sections, <<"summary">>),
                      description |-> Get(sections, <<"description">>),
                      args |-> <<>>,
                      returns |-> None,
                      raises |-> <<>>,
                      examples |-> PyOr(Get(sections, <<"Examples">>),
                                        Get(sections, <<"Example">>))]
        args_text == PyOr(Get(sections, <<"Args">>),
                          Get(sections, <<"Arguments">>))
        args      == IF \/ <<"Args">> \in DOMAIN sections
                        \/ <<"Arguments">> \in DOMAIN sections
                     THEN _parse_args_google(args_text)
                     ELSE Return(result.args)
    IN  IF ~args.ok THEN args
        ELSE Return([result EXCEPT
                 !.args = args.val,
                 !.returns = IF <<"Returns">> \in DOMAIN sections
                             THEN Some(_parse_returns_google(
                                           sections[<<"Returns">>]))
                             ELSE @,
                 !.raises = IF <<"Raises">> \in DOMAIN sections
                            THEN _parse_raises_google(sections[<<"Raises">>])
                            ELSE @])

_parse_numpy(docstring) ==
    LET lines    == Split(docstring, "\n")
        sections == _split_sections_numpy(lines)
    IN  [summary |-> Get(sections, <<"summary">>),
         description |-> Get(sections, <<"description">>),
         args |-> IF <<"Parameters">> \in DOMAIN sections
                  THEN _parse_args_numpy(sections[<<"Parameters">>])
                  ELSE <<>>,
         returns |-> IF <<"Returns">> \in DOMAIN sections
                     THEN Some(_parse_returns_numpy(sections[<<"Returns">>]))
                     ELSE None,
         raises |-> IF <<"Raises">> \in DOMAIN sections
                    THEN _parse_raises_numpy(sections[<<"Raises">>])
                    ELSE <<>>,
         examples |-> Get(sections, <<"Examples">>)]

\* The if/elif chain of parse: the strategy chosen for a non-empty docstring
DetectStyle(docstring) ==
    IF _is_google_style(docstring) THEN "google"
    ELSE IF _is_numpy_style(docstring) THEN "numpy"
    ELSE IF _is_sphinx_style(docstring) THEN "sphinx"
    ELSE "simple"

\* The call parse makes for the chosen strategy
ParseAs(style, docstring) ==
    CASE style = "google" -> _parse_google(docstring)
      [] style = "numpy"  -> Return(_parse_numpy(docstring))
      [] style = "sphinx" -> Return(_parse_sphinx(docstring))
      [] OTHER            -> Return(_parse_simple(docstring))

\* DocstringParser.parse(docstring) for an Optional[str]
parse(docstring) ==
    IF ~Truthy(docstring) THEN Return(EmptyDocModel)
    ELSE ParseAs(DetectStyle(docstring[1]), docstring[1])

(***************************************************************************)
(* Syntax trees: the nodes of Python's ast module that the extractors      *)
(* read.  A node is a record; kind is its class.  src is the text          *)
(* ast.unparse gives for an expression, doc what ast.get_docstring gives   *)
(* for a module, class or function (None without a docstring).             *)
(***************************************************************************)
\* ast.Name
Name(id) == [kind |-> "Name", id |-> id, src |-> id]

\* ast.Attribute: value.attr
Attribute(value, attr) ==
    [kind |-> "Attribute", value |-> value, attr |-> attr,
     src |-> value.src \o <<".">> \o attr]

\* ast.Call: func(args), args given as source text
Call(func, args) ==
    [kind |-> "Call", func |-> func,
     src |-> func.src \o <<"(">> \o args \o <<")">>]

\* ast.Subscript: value[slice], slice given as source text
Subscript(value, slice) ==
    [kind |-> "Subscript", value |-> value,
     src |-> value.src \o <<"[">> \o slice \o <<"]">>]

\* ast.BinOp with the operator | (ast.BitOr) or another one
BinOp(left, op, right) ==
    [kind |-> "BinOp", op |-> op,
     src |-> left.src \o <<" ", op, " ">> \o right.src]

\* ast.Constant, given as source text
Constant(src) == [kind |-> "Constant", src |-> src]

\* ast.arg
Arg(arg, annotation) == [arg |-> arg, annotation |-> annotation]

\* ast.arguments
Arguments(posonlyargs, args, vararg, kwonlyargs, kwarg, defaults) ==
    [posonlyargs |-> posonlyargs, args |-> args, vararg |-> vararg,
     kwonlyargs |-> kwonlyargs, kwarg |-> kwarg, defaults |-> defaults]

\* ast.ClassDef
ClassDef(name, bases, decorator_list, lineno, doc, body) ==
    [kind |-> "ClassDef", name |-> name, bases |-> bases,
     decorator_list |-> decorator_list, lineno |-> lineno, doc |-> doc,
     body |-> body]

\* ast.FunctionDef, and ast.AsyncFunctionDef when kind says so
FunctionDef(kind, name, args, decorator_list, returns, lineno, doc, body) ==
    [kind |-> kind, name |-> name, args |-> args,
     decorator_list |-> decorator_list, returns |-> returns,
     lineno |-> lineno, doc |-> doc, body |-> body]

\* ast.AnnAssign: target: annotation = value
AnnAssign(target, annotation, value, lineno) ==
    [kind |-> "AnnAssign", target |-> target, annotation |-> annotation,
     value |-> value, lineno |-> lineno]

\* ast.Assign: targets = value
Assign(targets, value, lineno) ==
    [kind |-> "Assign", targets |-> targets, value |-> value,
     lineno |-> lineno]

\* ast.alias
Alias(name, asname) == [name |-> name, asname |-> asname]

\* ast.Import
Import(names, lineno) ==
    [kind |-> "Import", names |-> names, lineno |-> lineno]

\* ast.ImportFrom
ImportFrom(module, names, level, lineno) ==
    [kind |-> "ImportFrom", module |-> module, names |-> names,
     level |-> level, lineno |-> lineno]

\* Any other statement (pass, an expression, ...)
Pass(lineno) == [kind |-> "Pass", lineno |-> lineno]

\* ast.Module
Module(doc, body) == [kind |-> "Module", doc |-> doc, body |-> body]

\* isinstance(node, ast.FunctionDef) or isinstance(node, ast.AsyncFunctionDef)
IsFunction(node) == node.kind \in {"FunctionDef", "AsyncFunctionDef"}

\* The statements directly inside a node (ast.iter_child_nodes, statements
\* only: an expression holds no class definition)
ChildStatements(node) ==
    IF node.kind \in {"Module", "ClassDef", "FunctionDef", "AsyncFunctionDef"}
    THEN node.body
    ELSE <<>>

\* ast.walk from a queue of nodes: breadth first
RECURSIVE WalkFrom(_)
WalkFrom(todo) ==
    IF todo = <<>> THEN <<>>
    ELSE <<Head(todo)>> \o WalkFrom(Tail(todo) \o ChildStatements(Head(todo)))

\* [f(x) for x in xs]
Map(F(_), xs) == [k \in 1..Len(xs) |-> F(xs[k])]

(***************************************************************************)
(* Names, decorators, annotations, parameters                              *)
(***************************************************************************)
\* ast.unparse(node)
Unparse(node) == node.src

get_name(node) ==
    IF node.kind = "Name" THEN node.id ELSE Unparse(node)

get_decorator_name(node) ==
    IF node.kind = "Name" THEN node.id
    ELSE IF node.kind = "Call" THEN get_name(node.func)
    ELSE Unparse(node)

get_annotation(node) == Unparse(node)

\* get_annotation(x) if x else None
AnnotationOrNone(x) == IF x # None THEN Some(get_annotation(x[1])) ELSE None

\* The entry extract_parameters makes for args.args[i] (i from 1)
RegularParameter(args, i) ==
    LET default_offset == Len(args.args) - Len(args.defaults)
    IN  [name |-> args.args[i].arg,
         annotation |-> AnnotationOrNone(args.args[i].annotation),
         default |-> IF i - 1 >= default_offset
                     THEN Some(Unparse(args.defaults[i - default_offset]))
                     ELSE None]

\* The entry for *args or **kwargs
StarParameter(prefix, a) ==
    [name |-> prefix \o a.arg,
     annotation |-> AnnotationOrNone(a.annotation),
     default |-> None]

extract_parameters(func_node) ==
    LET args    == func_node.args
        Kept(i) == args.args[i].arg \notin {<<"self">>, <<"cls">>}
        idx     == SelectSeq([i \in 1..Len(args.args) |-> i], Kept)
    IN  [k \in 1..Len(idx) |-> RegularParameter(args, idx[k])]
        \o (IF args.vararg # None
            THEN <<StarParameter(<<"*">>, args.vararg[1])>> ELSE <<>>)
        \o (IF args.kwarg # None
            THEN <<StarParameter(<<"*", "*">>, args.kwarg[1])>> ELSE <<>>)

(***************************************************************************)
(* Classes, methods, properties, functions                                 *)
(***************************************************************************)
\* A list built from calls that may raise: the first exception, in list
\* order, or the list of the values
Collect(outcomes) ==
    LET failed == {k \in 1..Len(outcomes) : ~outcomes[k].ok}
    IN  IF failed # {} THEN Raise(outcomes[Min(failed)].exc)
        ELSE Return([k \in 1..Len(outcomes) |-> outcomes[k].val])

\* any(get_decorator_name(d) == name for d in node.decorator_list)
HasDecorator(node, name) ==
    \E k \in 1..Len(node.decorator_list) :
        get_decorator_name(node.decorator_list[k]) = name

\* The dict extract_methods appends for a function node of a class body,
\* parsed_doc being the outcome of parsing its docstring
MethodRecord(node, parsed_doc) ==
        IF ~parsed_doc.ok THEN parsed_doc
        ELSE Return(
            [name |-> node.name,
             isStatic |-> HasDecorator(node, <<"staticmethod">>),
             isAsync |-> node.kind = "AsyncFunctionDef",
             isClassMethod |-> HasDecorator(node, <<"classmethod">>),
             isAbstract |-> HasDecorator(node, <<"abstractmethod">>),
             decorators |-> Map(get_decorator_name, node.decorator_list),
             line |-> node.lineno,
             docstring |-> node.doc,
             parsedDoc |-> parsed_doc.val,
             parameters |-> extract_parameters(node),
             returnAnnotation |-> AnnotationOrNone(node.returns)])

\* The loop of extract_methods: docstring_parser.parse, which may raise,
\* then the append
extract_methods(class_node) ==
    Collect(Map(LAMBDA node : MethodRecord(node, parse(node.doc)),
                SelectSeq(class_node.body, IsFunction)))

\* str.endswith(suffix)
EndsWithSeq(s, suffix) ==
    /\ Len(s) >= Len(suffix)
    /\ SubSeq(s, Len(s) - Len(suffix) + 1, Len(s)) = suffix

\* str.replace(sub, '')
RECURSIVE Remove(_, _)
Remove(s, sub) ==
    IF s = <<>> THEN <<>>
    ELSE IF SeqAt(s, 1, sub) THEN Remove(Drop(s, Len(sub)), sub)
    ELSE <<Head(s)>> \o Remove(Tail(s), sub)

\* The keys of property_methods, an insertion-ordered dict kept as the
\* sequence of its values (each value holds its key as name)
Keys(property_methods) ==
    {property_methods[k].name : k \in 1..Len(property_methods)}

\* property_methods[value.name] = value: a new key goes last, an old key
\* keeps its place
OrderedPut(property_methods, value) ==
    IF value.name \in Keys(property_methods)
    THEN [k \in 1..Len(property_methods) |->
             IF property_methods[k].name = value.name THEN value
             ELSE property_methods[k]]
    ELSE Append(property_methods, value)

\* property_methods[prop_name][flag] = True, if prop_name is a key
SetFlag(property_methods, prop_name, flag) ==
    [k \in 1..Len(property_methods) |->
        IF property_methods[k].name = prop_name
        THEN [property_methods[k] EXCEPT ![flag] = TRUE]
        ELSE property_methods[k]]

\* ApplyDecorator without the deleter check
ApplyDecoratorSetterOnly(property_methods, dec) ==
    LET dec_name == get_decorator_name(dec)
    IN  IF EndsWithSeq(dec_name, <<".", "setter">>)
        THEN SetFlag(property_methods,
                     Remove(dec_name, <<".", "setter">>), "hasSetter")
        ELSE property_methods

\* The setter and deleter checks for one decorator
ApplyDecorator(property_methods, dec) ==
    LET dec_name == get_decorator_name(dec)
        afterSetter ==
            IF EndsWithSeq(dec_name, <<".", "setter">>)
            THEN SetFlag(property_methods,
                         Remove(dec_name, <<".", "setter">>), "hasSetter")
            ELSE property_methods
    IN  IF EndsWithSeq(dec_name, <<".", "deleter">>)
        THEN SetFlag(afterSetter,
                     Remove(dec_name, <<".", "deleter">>), "hasDeleter")
        ELSE afterSetter

\* The loop over node.decorator_list from decorator i on
RECURSIVE ApplyDecoratorsFrom(_, _, _)
ApplyDecoratorsFrom(property_methods, decorator_list, i) ==
    IF i > Len(decorator_list) THEN property_methods
    ELSE ApplyDecoratorsFrom(
             ApplyDecorator(property_methods, decorator_list[i]),
             decorator_list, i + 1)

\* The first pass of extract_properties from statement i of the body on
RECURSIVE PropertyMethodsFrom(_, _, _)
PropertyMethodsFrom(body, i, property_methods) ==
    IF i > Len(body) THEN property_methods
    ELSE LET node == body[i]
         IN  IF node.kind # "FunctionDef"
             THEN PropertyMethodsFrom(body, i + 1, property_methods)
             ELSE LET withGetter ==
                          IF HasDecorator(node, <<"property">>)
                          THEN OrderedPut(property_methods,
                                   [name |-> node.name,
                                    type |-> <<"property">>,
                                    hasGetter |-> TRUE,
                                    hasSetter |-> FALSE,
                                    hasDeleter |-> FALSE,
                                    line |-> node.lineno,
                                    docstring |-> node.doc,
                                    returnAnnotation |->
                                        AnnotationOrNone(node.returns)])
                          ELSE property_methods
                  IN  PropertyMethodsFrom(body, i + 1,
                          ApplyDecoratorsFrom(withGetter,
                                              node.decorator_list, 1))

\* PropertyEntry with isReadonly taken from the getter flag alone
PropertyEntryGetterOnly(prop) ==
    [name |-> prop.name,
     type |-> <<"property">>,
     annotation |-> prop.returnAnnotation,
     default |-> None,
     line |-> prop.line,
     docstring |-> prop.docstring,
     isReadonly |-> prop.hasGetter,
     hasGetter |-> prop.hasGetter,
     hasSetter |-> prop.hasSetter,
     hasDeleter |-> prop.hasDeleter]

\* The entry appended for a value of property_methods
PropertyEntry(prop) ==
    [name |-> prop.name,
     type |-> <<"property">>,
     annotation |-> prop.returnAnnotation,
     default |-> None,
     line |-> prop.line,
     docstring |-> prop.docstring,
     isReadonly |-> prop.hasGetter /\ ~prop.hasSetter,
     hasGetter |-> prop.hasGetter,
     hasSetter |-> prop.hasSetter,
     hasDeleter |-> prop.hasDeleter]

\* The entry appended for an annotated class variable
ClassVariableEntry(node) ==
    [name |-> node.target.id,
     type |-> <<"class_variable">>,
     annotation |-> Some(get_annotation(node.annotation)),
     default |-> IF node.value # None THEN Some(Unparse(node.value[1]))
                 ELSE None,
     line |-> node.lineno,
     docstring |-> None,
     isReadonly |-> FALSE,
     hasGetter |-> FALSE,
     hasSetter |-> FALSE,
     hasDeleter |-> FALSE]

extract_properties(class_node) ==
    LET property_methods == PropertyMethodsFrom(class_node.body, 1, <<>>)
        IsClassVariable(node) ==
            /\ node.kind = "AnnAssign"
            /\ node.target.kind = "Name"
            /\ node.target.id \notin Keys(property_methods)
    IN  Map(PropertyEntry, property_methods)
        \o Map(ClassVariableEntry,
               SelectSeq(class_node.body, IsClassVariable))

\* The dict extract_classes appends for a class node, methods being the
\* outcome of extract_methods
ClassRecord(node, methods) ==
        IF ~methods.ok THEN methods
        ELSE Return(
            [name |-> node.name,
             baseClasses |-> Map(get_name, node.bases),
             decorators |-> Map(get_decorator_name, node.decorator_list),
             line |-> node.lineno,
             docstring |-> node.doc,
             methods |-> methods.val,
             properties |-> extract_properties(node)])


\* hasattr(node, 'parent'): the nodes ast.parse builds have no such attribute
\* and no code of the program sets one
HasParent(node) == "parent" \in DOMAIN node

\* The test of extract_classes on a node of ast.walk
IsExtractedClass(node) ==
    /\ node.kind = "ClassDef"
    /\ \/ (HasParent(node) /\ node.parent.kind = "Module")
       \/ ~HasParent(node)

extract_classes(tree) ==
    Collect(Map(LAMBDA node : ClassRecord(node, extract_methods(node)),
                SelectSeq(WalkFrom(<<tree>>), IsExtractedClass)))

\* The dict extract_functions appends for a function node of the module,
\* parsed_doc being the outcome of parsing its docstring
FunctionRecord(node, parsed_doc) ==
        IF ~parsed_doc.ok THEN parsed_doc
        ELSE Return(
            [name |-> node.name,
             isAsync |-> node.kind = "AsyncFunctionDef",
             decorators |-> Map(get_decorator_name, node.decorator_list),
             line |-> node.lineno,
             docstring |-> node.doc,
             parsedDoc |-> parsed_doc.val,
             parameters |-> extract_parameters(node),
             returnAnnotation |-> AnnotationOrNone(node.returns)])

extract_functions(tree) ==
    Collect(Map(LAMBDA node : FunctionRecord(node, parse(node.doc)),
                SelectSeq(tree.body, IsFunction)))

(***************************************************************************)
(* Type definitions and imports                                            *)
(***************************************************************************)
\* The identifiers of the model whose first character is an upper-case
\* letter (str.isupper on name[0])
UpperInitial == {"UserId", "Outer", "Inner", "Local", "Color", "Shape"}

\* The tokens that hold the characters "Protocol" ('Protocol' in bn)
HoldsProtocol == {"Protocol", "MyProtocol"}

\* sep.join(parts) for a separator of several characters
RECURSIVE JoinSeq(_, _)
JoinSeq(parts, sep) ==
    IF parts = <<>> THEN <<>>
    ELSE IF Len(parts) = 1 THEN parts[1]
    ELSE parts[1] \o sep \o JoinSeq(Tail(parts), sep)

\* "{" + ", ".join(items) + "}"
Braced(items) == <<"{">> \o JoinSeq(items, <<",", " ">>) \o <<"}">>

is_type_expression(node) ==
    \/ node.kind \in {"Name", "Constant"}
    \/ node.kind = "Subscript"
    \/ (node.kind = "BinOp" /\ node.op = "|")
    \/ node.kind = "Attribute"

\* isinstance(node, ast.AnnAssign) and isinstance(node.target, ast.Name)
IsAnnotatedName(node) ==
    node.kind = "AnnAssign" /\ node.target.kind = "Name"

extract_typeddict_fields(class_node) ==
    LET Field(node) == node.target.id \o <<":", " ">>
                           \o get_annotation(node.annotation)
    IN  Braced(Map(Field, SelectSeq(class_node.body, IsAnnotatedName)))

\* The signature extract_protocol_methods builds for a function node
ProtocolSignature(node) ==
    LET NotSelf(a) == a.arg # <<"self">>
        Param(a)   == a.arg \o (IF a.annotation # None
                                THEN <<":", " ">>
                                         \o get_annotation(a.annotation[1])
                                ELSE <<>>)
    IN  (IF node.kind = "AsyncFunctionDef" THEN <<"async", " ">> ELSE <<>>)
        \o node.name \o <<"(">>
        \o JoinSeq(Map(Param, SelectSeq(node.args.args, NotSelf)),
                   <<",", " ">>)
        \o <<")">>
        \o (IF node.returns # None
            THEN <<" ", "-", ">", " ">> \o get_annotation(node.returns[1])
            ELSE <<>>)

extract_protocol_methods(class_node) ==
    Braced(Map(ProtocolSignature, SelectSeq(class_node.body, IsFunction)))

\* The names extract_enum_members takes from one statement of the body
EnumTargets(node) ==
    LET IsName(t) == t.kind = "Name"
        Id(t)     == t.id
    IN  IF node.kind = "Assign"
        THEN Map(Id, SelectSeq(node.targets, IsName))
        ELSE <<>>

RECURSIVE Concat(_)
Concat(seqs) ==
    IF seqs = <<>> THEN <<>> ELSE Head(seqs) \o Concat(Tail(seqs))

extract_enum_members(class_node) ==
    Braced(Concat(Map(EnumTargets, class_node.body)))

\* The entry of the types list
TypeEntry(name, category, line, definition, docstring) ==
    [name |-> name, category |-> category, line |-> line,
     definition |-> definition, docstring |-> docstring]

\* What one pass of the loop of extract_types appends for a statement of
\* the module: the empty list or one entry.  The branches are those of the
\* if/elif chain, in its order; the second test on ast.Assign (the NewType
\* branch) comes after the first one in the same chain.
TypesOf(node) ==
    IF IsAnnotatedName(node)
    THEN IF node.annotation.kind = "Name"
            /\ node.annotation.id = <<"TypeAlias">>
         THEN <<TypeEntry(node.target.id, <<"TypeAlias">>, node.lineno,
                          IF node.value # None
                          THEN Some(Unparse(node.value[1])) ELSE None,
                          None)>>
         ELSE <<>>
    ELSE IF node.kind = "Assign"
    THEN IF /\ Len(node.targets) = 1
            /\ node.targets[1].kind = "Name"
            /\ node.targets[1].id[1] \in UpperInitial
            /\ is_type_expression(node.value)
         THEN <<TypeEntry(node.targets[1].id, <<"TypeAlias">>, node.lineno,
                          Some(Unparse(node.value)), None)>>
         ELSE <<>>
    ELSE IF node.kind = "ClassDef"
    THEN LET base_names == Map(get_name, node.bases)
             Has(name)  == \E k \in 1..Len(base_names) : base_names[k] = name
         IN  IF Has(<<"TypedDict">>)
             THEN <<TypeEntry(node.name, <<"TypedDict">>, node.lineno,
                              Some(extract_typeddict_fields(node)),
                              node.doc)>>
             ELSE IF \/ Has(<<"Protocol">>)
                     \/ \E k \in 1..Len(base_names) :
                            \E j \in 1..Len(base_names[k]) :
                                base_names[k][j] \in HoldsProtocol
             THEN <<TypeEntry(node.name, <<"Protocol">>, node.lineno,
                              Some(extract_protocol_methods(node)),
                              node.doc)>>
             ELSE IF Has(<<"Enum">>) \/ Has(<<"IntEnum">>) \/ Has(<<"StrEnum">>)
             THEN <<TypeEntry(node.name, <<"Enum">>, node.lineno,
                              Some(extract_enum_members(node)), node.doc)>>
             ELSE <<>>
    ELSE IF node.kind = "Assign"
    THEN IF /\ Len(node.targets) = 1
            /\ node.targets[1].kind = "Name"
            /\ node.value.kind = "Call"
            /\ node.value.func.kind = "Name"
            /\ node.value.func.id = <<"NewType">>
         THEN <<TypeEntry(node.targets[1].id, <<"NewType">>, node.lineno,
                          Some(Unparse(node.value)), None)>>
         ELSE <<>>
    ELSE <<>>

extract_types(tree) == Concat(Map(TypesOf, tree.body))

\* alias.asname if alias.asname else alias.name
ImportedName(alias) ==
    IF Truthy(alias.asname) THEN alias.asname[1] ELSE alias.name

\* The entries extract_imports appends for a statement of the module
ImportsOf(node) ==
    IF node.kind = "Import"
    THEN LET Entry(alias) == [source |-> alias.name,
                              names |-> <<ImportedName(alias)>>,
                              isRelative |-> FALSE,
                              level |-> 0]
         IN  Map(Entry, node.names)
    ELSE IF node.kind = "ImportFrom"
    THEN <<[source |-> IF Truthy(node.module) THEN node.module[1] ELSE <<>>,
            names |-> Map(ImportedName, node.names),
            isRelative |-> node.level > 0,
            level |-> node.level]>>
    ELSE <<>>

extract_imports(tree) == Concat(Map(ImportsOf, tree.body))

(***************************************************************************)
(* Tags of the module docstring: component, actors, relationships          *)
(***************************************************************************)
\* The index after a greedy \S+ started at i
NonSpaceEnd(s, i) ==
    LET stop == {j \in i..Len(s) : s[j] \in Space}
    IN  IF stop = {} THEN Len(s) + 1 ELSE Min(stop)

\* (?=@|$) at index i: an "@" follows, or the string ends at i, or only its
\* last line break follows
TagOrEnd(s, i) ==
    \/ TokAt(s, i, "@")
    \/ i = Len(s) + 1
    \/ (i = Len(s) /\ s[i] = "\n")

\* The index after a lazy (.*?) started at i and followed by (?=@|$)
LazyEnd(s, i) == Min({j \in i..(Len(s) + 1) : TagOrEnd(s, j)})

\* @<tag>\s+(\S+) matched at index i: the name and the index after it
MatchTag(s, i, tag) ==
    LET n == SkipSpaces(s, i + 2)
    IN  IF /\ TokAt(s, i, "@")
           /\ TokAt(s, i + 1, tag)
           /\ n > i + 2
           /\ n <= Len(s)
        THEN Some([name |-> SubSeq(s, n, NonSpaceEnd(s, n) - 1),
                   end |-> NonSpaceEnd(s, n)])
        ELSE None

\* re.search(rf'{tag}\s+(\S+)', docstring).group(1), None without a match
SearchTag(s, tag) ==
    LET hits == {i \in 1..Len(s) : MatchTag(s, i, tag) # None}
    IN  IF hits = {} THEN None ELSE Some(MatchTag(s, Min(hits), tag)[1].name)

\* The description extract_component gives: what re.match(r'^(.*?)(?=@)')
\* captures, stripped, or the stripped docstring without a match
ComponentDescription(s) ==
    LET ats  == {i \in 1..Len(s) : s[i] = "@"}
        text == IF ats = {} THEN Strip(s) ELSE Strip(Take(s, Min(ats) - 1))
    IN  IF text # <<>> THEN Some(text) ELSE None

\* The loop of extract_component over the tags, in priority order
RECURSIVE ComponentFrom(_, _)
ComponentFrom(s, tags) ==
    IF tags = <<>> THEN None
    ELSE IF SearchTag(s, Head(tags)) # None
    THEN Some([name |-> SearchTag(s, Head(tags))[1],
               description |-> ComponentDescription(s)])
    ELSE ComponentFrom(s, Tail(tags))

\* extract_component with @component looked for before @module
extract_component_first(tree) ==
    IF ~Truthy(tree.doc) THEN None
    ELSE ComponentFrom(tree.doc[1], <<"component", "module", "namespace">>)

extract_component(tree) ==
    IF ~Truthy(tree.doc) THEN None
    ELSE ComponentFrom(tree.doc[1], <<"module", "component", "namespace">>)

\* The pattern of extract_actors matched at index i: the entry and the index
\* after the match
MatchActor(s, i) ==
    LET head == MatchTag(s, i, "actor")
        b    == SkipSpaces(s, head[1].end)
        d    == SkipSpaces(s, b + 3)
        dir  == /\ TokAt(s, d, "{")
                /\ TokIn(s, d + 1, {"in", "out", "both"})
                /\ TokAt(s, d + 2, "}")
        from == IF dir THEN SkipSpaces(s, d + 3) ELSE d
        to   == LazyEnd(s, from)
        text == Strip(SubSeq(s, from, to - 1))
    IN  IF /\ head # None
           /\ b > head[1].end
           /\ TokAt(s, b, "{")
           /\ TokIn(s, b + 1, {"Person", "System"})
           /\ TokAt(s, b + 2, "}")
        THEN Some([entry |-> [name |-> head[1].name,
                              type |-> <<s[b + 1]>>,
                              direction |-> IF dir THEN <<s[d + 1]>>
                                            ELSE <<"both">>,
                              description |-> IF text # <<>> THEN Some(text)
                                              ELSE None],
                   end |-> to])
        ELSE None

\* The pattern of extract_relationships matched at index i
MatchUses(s, i) ==
    LET head == MatchTag(s, i, "uses")
        from == SkipSpaces(s, head[1].end)
        to   == LazyEnd(s, from)
        text == Strip(SubSeq(s, from, to - 1))
    IN  IF head # None
        THEN Some([entry |-> [target |-> head[1].name,
                              description |-> IF text # <<>> THEN Some(text)
                                              ELSE None],
                   end |-> to])
        ELSE None

\* re.finditer(pattern, docstring) of extract_actors from index i: the
\* entries of the matches, left to right, each search starting where the
\* match before it ended
RECURSIVE ActorsFrom(_, _)
ActorsFrom(s, i) ==
    LET hits == {j \in i..Len(s) : MatchActor(s, j) # None}
    IN  IF hits = {} THEN <<>>
        ELSE <<MatchActor(s, Min(hits))[1].entry>>
                 \o ActorsFrom(s, MatchActor(s, Min(hits))[1].end)

extract_actors(tree) ==
    IF ~Truthy(tree.doc) THEN <<>> ELSE ActorsFrom(tree.doc[1], 1)

\* re.finditer(pattern, docstring) of extract_relationships from index i
RECURSIVE RelationshipsFrom(_, _)
RelationshipsFrom(s, i) ==
    LET hits == {j \in i..Len(s) : MatchUses(s, j) # None}
    IN  IF hits = {} THEN <<>>
        ELSE <<MatchUses(s, Min(hits))[1].entry>>
                 \o RelationshipsFrom(s, MatchUses(s, Min(hits))[1].end)

extract_relationships(tree) ==
    IF ~Truthy(tree.doc) THEN <<>> ELSE RelationshipsFrom(tree.doc[1], 1)

(***************************************************************************)
(* State                                                                   *)
(***************************************************************************)
VARIABLES
    docstring,  \* the argument of DocstringParser.parse: None or Some(text)
    docPc,      \* where the call of parse is: "call", "detected",
                \* "returned", "raised" ("idle" while main runs)
    style,      \* the strategy parse chose ("" before it chooses)
    parsedDoc,  \* None, or Some(the record parse returned)
    docExc,     \* None, or Some(the message of the exception parse raised)
    sections,   \* None, or Some(the dict the section splitter returned to
                \* _parse_google or _parse_numpy)
    argv,       \* sys.argv: the script name, then the path arguments
    fs,         \* the file system: what each path holds
    pc,         \* where main is: "main", "comprehension", "exited" ("idle"
                \* when the program is not running), or,
                \* inside a call of parse_file, the step it is about to do
    index,      \* the place in file_paths of the list comprehension of main
    tree,       \* None, or Some(the tree ast.parse returned)
    fields,     \* the values of the dict display of parse_file evaluated so
                \* far, by key
    exc,        \* None, or Some(the exception raised inside the try)
    files,      \* the list the comprehension has built so far
    stdout,     \* the JSON values printed, in order
    status      \* None while the process runs, then Some(its exit status)

docVars == <<docstring, docPc, style, parsedDoc, docExc, sections>>

mainVars == <<argv, fs, pc, index, tree, fields, exc, files, stdout, status>>

vars == <<docVars, mainVars>>

(***************************************************************************)
(* Docstrings given to parse                                               *)
(***************************************************************************)
\* The longest docstring, in lines
MaxLines == 4

\* Every name that is a section header for some splitter
HeaderNames == GoogleSectionKeywords \cup NumpySectionKeywords

\* The lines a docstring is made of, for a header name kw: a blank line, a
\* text line that is also an entry ("x: desc"), the name with and without a
\* colon, a line of dashes and a Sphinx field.
LineShapes(kw) ==
    {<<>>,
     <<"x", ":", " ", "desc">>,
     kw \o <<":">>,
     kw,
     <<"-", "-">>,
     <<":", "param", " ", "x", ":", " ", "desc">>}

\* No line at a place of a list of lines (a line cannot hold a line break)
NoLine == <<"\n">>

\* The lines that are there
PresentLines(ls) == SelectSeq(ls, LAMBDA line : line # NoLine)

\* The texts of at most n lines drawn from shapes
TextsUpTo(shapes, n) ==
    {Join(PresentLines(ls), "\n") : ls \in [1..n -> shapes \cup {NoLine}]}

\* A header name to be replaced by each name of HeaderNames
AnyName == <<"Keyword">>

\* The line with kw in the place of AnyName
WithName(line, kw) ==
    IF line = AnyName THEN kw
    ELSE IF line = AnyName \o <<":">> THEN kw \o <<":">>
    ELSE line

\* The texts of at most MaxLines lines of LineShapes(kw), for every header
\* name kw
DocTexts ==
    {Join([i \in 1..Len(PresentLines(ls)) |->
               WithName(PresentLines(ls)[i], kw)], "\n") :
         kw \in HeaderNames,
         ls \in [1..MaxLines -> LineShapes(AnyName) \cup {NoLine}]}

MaxBodyLines == 3

\* The lines a section body is made of: a blank line, typed entries
\* ("x : int", "y : str"), a bare name, an indented line of description and
\* a name with a colon and nothing after it.
BodyLineShapes ==
    {<<>>,
     <<"x", " ", ":", " ", "int">>,
     <<"y", " ", ":", " ", "str">>,
     <<"x">>,
     <<" ", " ", " ", " ", "desc">>,
     <<"x", ":">>}

\* A summary line and a section header: Google Returns and Args, NumPy
\* Parameters with its line of dashes, and Parameters with a blank line
\* before the dashes.
SectionHeads ==
    {<<"S", "\n", "Returns", ":">>,
     <<"S", "\n", "Args", ":">>,
     <<"S", "\n", "Parameters", "\n", "-", "-">>,
     <<"S", "\n", "Parameters", "\n", "\n", "-", "-">>}

\* Docstrings with one section and a body of up to MaxBodyLines lines
SectionTexts ==
    {head \o <<"\n">> \o body :
         head \in SectionHeads,
         body \in TextsUpTo(BodyLineShapes, MaxBodyLines)}

MaxFieldLines == 4

\* The lines of a Sphinx field list: two descriptions of the parameter x,
\* its type, the two spellings of the returns field, the return type and a
\* line of text.
FieldLineShapes ==
    {<<":", "param", " ", "x", ":", " ", "a">>,
     <<":", "param", " ", "x", ":", " ", "b">>,
     <<":", "type", " ", "x", ":", " ", "int">>,
     <<":", "returns", ":", " ", "r">>,
     <<":", "return", ":", " ", "q">>,
     <<":", "rtype", ":", " ", "bool">>,
     <<"more">>}

\* Docstrings of up to MaxFieldLines Sphinx lines
FieldTexts == TextsUpTo(FieldLineShapes, MaxFieldLines)

\* Lines that look like a Google header: a name with two colons, with text
\* after the colon, in lower case; a header; an entry
HeaderLikeShapes ==
    {<<"Args", ":", ":">>,
     <<"Args", ":", " ", "x">>,
     <<"args", ":">>,
     <<"Returns", ":">>,
     <<"x", " ", ":", " ", "int">>}

\* Google docstrings with an Args section followed by up to MaxBodyLines
\* such lines
HeaderLikeTexts ==
    {<<"S", "\n", "Args", ":", "\n">> \o body :
         body \in TextsUpTo(HeaderLikeShapes, MaxBodyLines)}

\* The families of docstrings given to parse
DocFamilies == <<DocTexts, SectionTexts, FieldTexts, HeaderLikeTexts>>

\* The argument of parse: no docstring, or a text of one of the families
DocInputs(opt) ==
    \/ opt = None
    \/ \E k \in 1..Len(DocFamilies) : \E d \in DocFamilies[k] : opt = Some(d)

(***************************************************************************)
(* DocstringParser.parse, step by step                                     *)
(***************************************************************************)
DocInit ==
    /\ DocInputs(docstring)
    /\ docPc = "call"
    /\ style = ""
    /\ parsedDoc = None
    /\ docExc = None
    /\ sections = None
    /\ argv = <<>>
    /\ fs = EmptyDict
    /\ pc = "idle"
    /\ index = 0
    /\ tree = None
    /\ fields = EmptyDict
    /\ exc = None
    /\ files = <<>>
    /\ stdout = <<>>
    /\ status = None

\* if not docstring: return {...}
ParseEmpty ==
    /\ docPc = "call"
    /\ ~Truthy(docstring)
    /\ parsedDoc' = Some(EmptyDocModel)
    /\ docPc' = "returned"
    /\ UNCHANGED <<docstring, style, docExc, sections, mainVars>>

\* The if/elif chain on _is_google_style, _is_numpy_style, _is_sphinx_style
ParseDetect ==
    /\ docPc = "call"
    /\ Truthy(docstring)
    /\ style' = DetectStyle(docstring[1])
    /\ docPc' = "detected"
    /\ UNCHANGED <<docstring, parsedDoc, docExc, sections, mainVars>>

\* The end of a call of a strategy: it returned a record or it raised
ParseEnd(outcome) ==
    /\ IF outcome.ok
       THEN /\ parsedDoc' = Some(outcome.val)
            /\ docPc' = "returned"
            /\ UNCHANGED docExc
       ELSE /\ docExc' = Some(outcome.exc)
            /\ docPc' = "raised"
            /\ UNCHANGED parsedDoc
    /\ UNCHANGED <<docstring, style, mainVars>>

ParseGoogle ==
    /\ docPc = "detected"
    /\ style = "google"
    /\ sections' = Some(_split_sections_google(Split(docstring[1], "\n")))
    /\ ParseEnd(ParseAs("google", docstring[1]))

ParseNumpy ==
    /\ docPc = "detected"
    /\ style = "numpy"
    /\ sections' = Some(_split_sections_numpy(Split(docstring[1], "\n")))
    /\ ParseEnd(ParseAs("numpy", docstring[1]))

ParseSphinx ==
    /\ docPc = "detected"
    /\ style = "sphinx"
    /\ ParseEnd(ParseAs("sphinx", docstring[1]))
    /\ UNCHANGED sections

ParseSimple ==
    /\ docPc = "detected"
    /\ style = "simple"
    /\ ParseEnd(ParseAs("simple", docstring[1]))
    /\ UNCHANGED sections

DocNext ==
    \/ ParseEmpty
    \/ ParseDetect
    \/ ParseGoogle
    \/ ParseNumpy
    \/ ParseSphinx
    \/ ParseSimple

DocSpec == DocInit /\ [][DocNext]_vars

(***************************************************************************)
(* Files given to the program.  A file is described by what open() and     *)
(* ast.parse do with it: open raises, ast.parse raises a SyntaxError, or   *)
(* ast.parse returns a tree.                                               *)
(***************************************************************************)
\* The most path arguments of a run
MaxFiles == 3

Paths == {"a.py", "b.py"}

\* A docstring whose Args section is blank: parse raises on it
BlankArgsDoc == <<"S", "\n", "Args", ":", "\n", "\n", "Returns", ":">>

\* A Google docstring that parse accepts
GoogleDoc ==
    <<"Sum", ".", "\n", "\n", "Args", ":", "\n",
      " ", " ", " ", " ", "x", ":", " ", "the", " ", "value">>

\* def <name>(self, x), its body being a docstring or pass on the next line
Def(name, lineno, doc) ==
    FunctionDef("FunctionDef", <<name>>,
                Arguments(<<>>, <<Arg(<<"self">>, None), Arg(<<"x">>, None)>>,
                          None, <<>>, None, <<>>),
                <<>>, None, lineno, doc, <<Pass(lineno + 1)>>)

\* class Outer:               def f(self, x):
\*     class Inner:               class Local:
\*         pass                       pass
NestedModule ==
    Module(None,
           <<ClassDef(<<"Outer">>, <<>>, <<>>, 1, None,
                      <<ClassDef(<<"Inner">>, <<>>, <<>>, 2, None,
                                 <<Pass(3)>>)>>),
             [Def("f", 4, None) EXCEPT
                 !.body = <<ClassDef(<<"Local">>, <<>>, <<>>, 5, None,
                                     <<Pass(6)>>)>>]>>)

\* A module with a component, a class and then a function whose docstring
\* makes parse raise
BlankArgsModule ==
    Module(Some(<<"@", "module", " ", "core">>),
           <<Pass(1),
             ClassDef(<<"Shape">>, <<Name(<<"Protocol">>)>>, <<>>, 2, None,
                      <<Def("area", 3, Some(GoogleDoc))>>),
             Def("f", 5, Some(BlankArgsDoc))>>)

\* A module with a method whose docstring makes parse raise
BlankArgsMethodModule ==
    Module(None,
           <<ClassDef(<<"Outer">>, <<>>, <<>>, 1, None,
                      <<Def("f", 2, Some(BlankArgsDoc))>>)>>)

\* A module with one entry of every kind (a docstring is also the first
\* statement of the body it documents)
FullModule ==
    Module(Some(<<"Payments", ".", "\n", "\n", "@", "module", " ", "pay",
                  "\n", "@", "actor", " ", "User", " ", "{", "Person", "}",
                  " ", "{", "in", "}", " ", "buyer", "\n",
                  "@", "uses", " ", "db", " ", "stores">>),
           <<Pass(1),
             Import(<<Alias(<<"os">>, None)>>, 2),
             Assign(<<Name(<<"UserId">>)>>, Name(<<"str">>), 3),
             ClassDef(<<"Color">>, <<Name(<<"Enum">>)>>, <<>>, 4,
                      Some(<<"Colors", ".">>),
                      <<Pass(5),
                        Assign(<<Name(<<"RED">>)>>, Constant(<<"1">>), 6),
                        Def("hex", 7, Some(GoogleDoc))>>),
             Def("pay", 9, Some(GoogleDoc))>>)

Modules ==
    {Module(None, <<>>), NestedModule, BlankArgsModule,
     BlankArgsMethodModule, FullModule}

\* e.lineno of a SyntaxError: ast.parse leaves it None when the source
\* holds a null byte
Linenos == {None, Some(1), Some(2)}

SyntaxError(lineno, msg) ==
    [type |-> "SyntaxError", lineno |-> lineno, msg |-> msg]

\* An exception that is not a SyntaxError, with the text str(e) gives
Exception(type, message) == [type |-> type, message |-> message]

\* What ast.parse reports for a source it rejects
SyntaxMessages ==
    [lineno \in Linenos |->
        IF lineno = None
        THEN <<"source", " ", "code", " ", "string", " ", "cannot", " ",
               "contain", " ", "null", " ", "bytes">>
        ELSE <<"invalid", " ", "syntax">>]

\* A path that open() cannot open, and the files that it can: parsed is
\* the outcome of ast.parse on the text
Missing == [kind |-> "missing"]

TextFile(parsed) == [kind |-> "text", parsed |-> parsed]

Files ==
    {Missing}
    \cup {TextFile(Raise(SyntaxError(l, SyntaxMessages[l]))) : l \in Linenos}
    \cup {TextFile(Return(m)) : m \in Modules}

\* Every list of at most n path arguments
RECURSIVE PathLists(_)
PathLists(n) ==
    IF n = 0 THEN {<<>>}
    ELSE PathLists(n - 1)
         \cup {Append(l, p) : l \in {x \in PathLists(n - 1) : Len(x) = n - 1},
                              p \in Paths}

(***************************************************************************)
(* main and parse_file, step by step                                       *)
(***************************************************************************)
Init ==
    /\ argv \in {<<"python-ast-parser.py">> \o l : l \in PathLists(MaxFiles)}
    /\ fs \in [Paths -> Files]
    /\ pc = "main"
    /\ index = 0
    /\ tree = None
    /\ fields = EmptyDict
    /\ exc = None
    /\ files = <<>>
    /\ stdout = <<>>
    /\ status = None
    /\ docstring = None
    /\ docPc = "idle"
    /\ style = ""
    /\ parsedDoc = None
    /\ docExc = None
    /\ sections = None

\* NoPaths with the script name forgotten
NoPathsLoose == Len(argv) < 1

\* len(sys.argv) < 2
NoPaths == Len(argv) < 2

\* file_paths with the slice one too far: sys.argv[2:]
file_paths_from_2 == Tail(Tail(argv))

\* sys.argv[1:]
file_paths == Tail(argv)

\* The argument of the running call of parse_file
file_path == file_paths[index]

\* The decimal numerals of the line numbers of the model
Numerals == <<"0", "1", "2", "3", "4", "5", "6", "7", "8", "9">>

\* str() of an int or of None, inside an f-string
Str(n) == IF n = None THEN <<"None">> ELSE <<Numerals[n[1] + 1]>>

\* str(e) of the FileNotFoundError open() raises
NoSuchFile(path) ==
    <<"[", "Errno", " ", "2", "]", " ", "No", " ", "such", " ", "file", " ",
      "or", " ", "directory", ":", " ", "'", path, "'">>

\* The dict both except clauses return
ErrorRecord(path, parseError) ==
    [filePath |-> path,
     component |-> None,
     actors |-> <<>>,
     relationships |-> <<>>,
     classes |-> <<>>,
     functions |-> <<>>,
     types |-> <<>>,
     imports |-> <<>>,
     parseError |-> parseError]

\* if len(sys.argv) < 2: print the error object and sys.exit(1)
MainNoPaths ==
    /\ pc = "main"
    /\ NoPaths
    /\ stdout' = Append(stdout, [error |-> "No file paths provided"])
    /\ status' = Some(1)
    /\ pc' = "exited"
    /\ UNCHANGED <<argv, fs, index, tree, fields, exc, files, docVars>>

\* The list comprehension starts on file_paths
MainPaths ==
    /\ pc = "main"
    /\ ~NoPaths
    /\ index' = 1
    /\ pc' = "comprehension"
    /\ UNCHANGED <<argv, fs, tree, fields, exc, files, stdout, status,
                   docVars>>

\* The comprehension calls parse_file on the next path
CallParseFile ==
    /\ pc = "comprehension"
    /\ index <= Len(file_paths)
    /\ pc' = "open"
    /\ UNCHANGED <<argv, fs, index, tree, fields, exc, files, stdout, status,
                   docVars>>

\* with open(file_path) as f: source = f.read()
ParseFileRead ==
    /\ pc = "open"
    /\ IF fs[file_path].kind = "missing"
       THEN /\ exc' = Some(Exception("FileNotFoundError",
                                     NoSuchFile(file_path)))
            /\ pc' = "except"
       ELSE /\ pc' = "ast.parse"
            /\ UNCHANGED exc
    /\ UNCHANGED <<argv, fs, index, tree, fields, files, stdout, status,
                   docVars>>

\* tree = ast.parse(source), then the first entry of the dict display
ParseFileParse ==
    /\ pc = "ast.parse"
    /\ LET parsed == fs[file_path].parsed
       IN  IF parsed.ok
           THEN /\ tree' = Some(parsed.val)
                /\ fields' = Put(fields, "filePath", file_path)
                /\ pc' = "component"
                /\ UNCHANGED exc
           ELSE /\ exc' = Some(parsed.exc)
                /\ pc' = "except"
                /\ UNCHANGED <<tree, fields>>
    /\ UNCHANGED <<argv, fs, index, files, stdout, status, docVars>>

\* An entry of the dict display whose extractor cannot raise
Entry(key, value, next) ==
    /\ fields' = Put(fields, key, value)
    /\ pc' = next
    /\ UNCHANGED <<argv, fs, index, tree, exc, files, stdout, status,
                   docVars>>

\* An entry of the dict display whose extractor parses docstrings: the
\* AttributeError of DocstringParser leaves the display unfinished
RaisingEntry(key, outcome, next) ==
    /\ IF outcome.ok
       THEN /\ fields' = Put(fields, key, outcome.val)
            /\ pc' = next
            /\ UNCHANGED exc
       ELSE /\ exc' = Some(Exception("AttributeError", <<outcome.exc>>))
            /\ pc' = "except"
            /\ UNCHANGED fields
    /\ UNCHANGED <<argv, fs, index, tree, files, stdout, status, docVars>>

ParseFileComponent ==
    /\ pc = "component"
    /\ Entry("component", extract_component(tree[1]), "actors")

ParseFileActors ==
    /\ pc = "actors"
    /\ Entry("actors", extract_actors(tree[1]), "relationships")

ParseFileRelationships ==
    /\ pc = "relationships"
    /\ Entry("relationships", extract_relationships(tree[1]), "classes")

ParseFileClasses ==
    /\ pc = "classes"
    /\ RaisingEntry("classes", extract_classes(tree[1]), "functions")

ParseFileFunctions ==
    /\ pc = "functions"
    /\ RaisingEntry("functions", extract_functions(tree[1]), "types")

ParseFileTypes ==
    /\ pc = "types"
    /\ Entry("types", extract_types(tree[1]), "imports")

\* ParseFileImports with the list of extract_imports shared by the calls:
\* the entries of the record returned before stay in it
ParseFileImportsShared ==
    /\ pc = "imports"
    /\ Entry("imports",
             (IF files = <<>> THEN <<>> ELSE files[Len(files)].imports)
             \o extract_imports(tree[1]),
             "return")

ParseFileImports ==
    /\ pc = "imports"
    /\ Entry("imports", extract_imports(tree[1]), "return")

\* parse_file returns record to the comprehension, which appends it and
\* moves on; the frame of the call is gone
Returned(record) ==
    /\ files' = Append(files, record)
    /\ index' = index + 1
    /\ tree' = None
    /\ fields' = EmptyDict
    /\ exc' = None
    /\ pc' = "comprehension"
    /\ UNCHANGED <<argv, fs, stdout, status, docVars>>

\* return {...}: the dict display is complete
ParseFileReturn ==
    /\ pc = "return"
    /\ Returned(fields)

\* except SyntaxError as e
ExceptSyntaxError ==
    /\ pc = "except"
    /\ exc[1].type = "SyntaxError"
    /\ Returned(ErrorRecord(file_path,
                    <<"Syntax", " ", "error", " ", "at", " ", "line", " ">>
                    \o Str(exc[1].lineno) \o <<":", " ">> \o exc[1].msg))

\* ExceptException without the except clause: the exception leaves
\* parse_file and main, and the process ends with a traceback
Uncaught ==
    /\ pc = "except"
    /\ exc[1].type # "SyntaxError"
    /\ status' = Some(1)
    /\ pc' = "exited"
    /\ UNCHANGED <<argv, fs, index, tree, fields, exc, files, stdout,
                   docVars>>

\* except Exception as e
ExceptException ==
    /\ pc = "except"
    /\ exc[1].type # "SyntaxError"
    /\ Returned(ErrorRecord(file_path, exc[1].message))

\* print(json.dumps(results, indent=2)) after the comprehension, and the
\* normal end of the process
MainPrint ==
    /\ pc = "comprehension"
    /\ index > Len(file_paths)
    /\ stdout' = Append(stdout, [files |-> files])
    /\ status' = Some(0)
    /\ pc' = "exited"
    /\ UNCHANGED <<argv, fs, index, tree, fields, exc, files, docVars>>

Next ==
    \/ MainNoPaths
    \/ MainPaths
    \/ CallParseFile
    \/ ParseFileRead
    \/ ParseFileParse
    \/ ParseFileComponent
    \/ ParseFileActors
    \/ ParseFileRelationships
    \/ ParseFileClasses
    \/ ParseFileFunctions
    \/ ParseFileTypes
    \/ ParseFileImports
    \/ ParseFileReturn
    \/ ExceptSyntaxError
    \/ ExceptException
    \/ MainPrint

Spec == Init /\ [][Next]_vars

(***************************************************************************)
(* Trees given to the extractors: modules built from a few statements,     *)
(* class members, parameters and docstring lines                           *)
(***************************************************************************)
\* The most statements of a generated module body
MaxStatements == 2

\* The most members of a generated class body
MaxMembers == 3

\* The most regular parameters of a generated function
MaxParams == 2

\* The most lines of a generated module docstring
MaxTagLines == 3

\* The base lists of the generated classes: no base, one base, or two
\* different bases in either order
BaseNames == {<<"TypedDict">>, <<"Protocol">>, <<"Enum">>}

BaseLists ==
    {<<>>, <<Name(<<"MyProtocol">>)>>}
    \cup {<<Name(a)>> : a \in BaseNames}
    \cup {<<Name(pair[1]), Name(pair[2])>> :
              pair \in {p \in BaseNames \X BaseNames : p[1] # p[2]}}

\* The one-line statements a generated module holds at line l:
\*   UserId: TypeAlias = str        UserId: int = 1
\*   UserId = str                   local = str
\*   UserId = NewType('UserId', str)
\*   import os, sys                 from typing import NewType
\*   class Color(<bases>): pass
TypeStatements(l) ==
    {AnnAssign(Name(<<"UserId">>), Name(<<"TypeAlias">>),
               Some(Name(<<"str">>)), l),
     AnnAssign(Name(<<"UserId">>), Name(<<"int">>),
               Some(Constant(<<"1">>)), l),
     Assign(<<Name(<<"UserId">>)>>, Name(<<"str">>), l),
     Assign(<<Name(<<"local">>)>>, Name(<<"str">>), l),
     Assign(<<Name(<<"UserId">>)>>,
            Call(Name(<<"NewType">>),
                 <<"'", "UserId", "'", ",", " ", "str">>), l),
     Import(<<Alias(<<"os">>, None), Alias(<<"sys">>, None)>>, l),
     ImportFrom(Some(<<"typing">>), <<Alias(<<"NewType">>, None)>>, 0, l)}
    \cup {ClassDef(<<"Color">>, bases, <<>>, l, None, <<Pass(l)>>) :
              bases \in BaseLists}

\* Every body of at most n such statements, statement k on line k
RECURSIVE TypeBodies(_)
TypeBodies(n) ==
    IF n = 0 THEN {<<>>}
    ELSE TypeBodies(n - 1)
         \cup {Append(b, s) : b \in {x \in TypeBodies(n - 1) : Len(x) = n - 1},
                              s \in TypeStatements(n)}

\* def <name>(self<, value>) under a decorator, the def on line l
Decorated(decorator, name, args, l) ==
    FunctionDef("FunctionDef", <<name>>,
                Arguments(<<>>, args, None, <<>>, None, <<>>),
                <<decorator>>, None, l, None, <<Pass(l)>>)

\* The members a generated class holds, the k-th of them on line 2k + 1
\* (its decorator on line 2k):
\*   @property        @x.setter              @x.deleter       @property
\*   def x(self)      def x(self, value)     def x(self)      def y(self)
\*   count: int = 0   def m(self, x)
Members(l) ==
    {Decorated(Name(<<"property">>), "x", <<Arg(<<"self">>, None)>>, l),
     Decorated(Attribute(Name(<<"x">>), <<"setter">>), "x",
               <<Arg(<<"self">>, None), Arg(<<"value">>, None)>>, l),
     Decorated(Attribute(Name(<<"x">>), <<"deleter">>), "x",
               <<Arg(<<"self">>, None)>>, l),
     Decorated(Name(<<"property">>), "y", <<Arg(<<"self">>, None)>>, l),
     AnnAssign(Name(<<"count">>), Name(<<"int">>),
               Some(Constant(<<"0">>)), l),
     Def("m", l, None)}

RECURSIVE MemberBodies(_)
MemberBodies(n) ==
    IF n = 0 THEN {<<>>}
    ELSE MemberBodies(n - 1)
         \cup {Append(b, s) :
                  b \in {x \in MemberBodies(n - 1) : Len(x) = n - 1},
                  s \in Members(2 * n + 1)}

\* The names of the generated parameters
ParamNames == {<<"self">>, <<"cls">>, <<"p1">>, <<"p2">>}

\* Every list of at most n different regular parameters
RECURSIVE ParamLists(_)
ParamLists(n) ==
    IF n = 0 THEN {<<>>}
    ELSE ParamLists(n - 1)
         \cup {Append(l, Arg(p, None)) :
                  l \in {x \in ParamLists(n - 1) : Len(x) = n - 1},
                  p \in ParamNames}

NoRepeat(l) == \A i, j \in 1..Len(l) : l[i] = l[j] => i = j

\* def f(<q, /,> <regular parameters><, *args><, *, k><, **kwargs>): pass,
\* on line l
ParamDefs(l) ==
    {FunctionDef("FunctionDef", <<"f">>,
                 Arguments(posonly, regular, vararg, kwonly, kwarg, <<>>),
                 <<>>, None, l, None, <<Pass(l)>>) :
         posonly \in {<<>>, <<Arg(<<"q">>, None)>>},
         regular \in {x \in ParamLists(MaxParams) : NoRepeat(x)},
         vararg \in {None, Some(Arg(<<"args">>, None))},
         kwonly \in {<<>>, <<Arg(<<"k">>, None)>>},
         kwarg \in {None, Some(Arg(<<"kwargs">>, None))}}

\* The lines a generated module docstring is made of
TagLines ==
    {<<"Payments", ".">>,
     <<"@", "module", " ", "pay">>,
     <<"@", "module">>,
     <<"@", "component", " ", "core">>,
     <<"@", "namespace", " ", "ns">>,
     <<"@", "actor", " ", "Customer", " ", "{", "Person", "}", " ",
       "{", "in", "}", " ", "End", " ", "user">>,
     <<"@", "actor", " ", "Bank", " ", "{", "System", "}">>,
     <<"@", "actor", " ", "Bad", " ", "{", "Thing", "}", " ", "x">>,
     <<"@", "uses", " ", "Database", " ", "Stores", " ", "records">>,
     <<"@", "uses">>}

\* Every docstring of at most n such lines
RECURSIVE TagDocs(_)
TagDocs(n) ==
    IF n = 0 THEN {<<>>}
    ELSE TagDocs(n - 1)
         \cup {d \o <<"\n">> \o l :
                  d \in {x \in TagDocs(n - 1) : x # <<>>}, l \in TagLines}
         \cup TagLines

\* The generated modules: a body of one-line statements; a documented
\* class with generated members; a function, or a class with one method,
\* with generated parameters; a docstring of generated lines
TreeModules ==
    {Module(None, body) : body \in TypeBodies(MaxStatements)}
    \cup {Module(None, <<ClassDef(<<"Outer">>, <<>>, <<>>, 1,
                                  Some(<<"Doc", ".">>), body)>>) :
              body \in MemberBodies(MaxMembers)}
    \cup {Module(None, <<def>>) : def \in ParamDefs(1)}
    \cup {Module(None, <<ClassDef(<<"Outer">>, <<>>, <<>>, 1, None,
                                  <<def>>)>>) : def \in ParamDefs(2)}
    \cup {Module(Some(doc), <<>>) : doc \in TagDocs(MaxTagLines)}

\* A run on no path, or on the path a.py, which is missing, or a file that
\* ast.parse rejects, or a file with a generated module
TreeInit ==
    /\ argv \in {<<"python-ast-parser.py">>,
                 <<"python-ast-parser.py", "a.py">>}
    /\ \E file \in {Missing,
                    TextFile(Raise(SyntaxError(Some(1),
                                               SyntaxMessages[Some(1)])))}
                   \cup {TextFile(Return(m)) : m \in TreeModules} :
           fs = [p \in Paths |-> IF p = "a.py" THEN file ELSE Missing]
    /\ pc = "main"
    /\ index = 0
    /\ tree = None
    /\ fields = EmptyDict
    /\ exc = None
    /\ files = <<>>
    /\ stdout = <<>>
    /\ status = None
    /\ docstring = None
    /\ docPc = "idle"
    /\ style = ""
    /\ parsedDoc = None
    /\ docExc = None
    /\ sections = None

TreeSpec == TreeInit /\ [][Next]_vars

(***************************************************************************)
(* Claims about main and parse_file (checked under Spec)                   *)
(***************************************************************************)
\* The path arguments of the run, as given on the command line
GivenPaths == [k \in 1..(Len(argv) - 1) |-> argv[k + 1]]

\* The process has ended after printing exactly the files array
PrintedFiles == Len(stdout) = 1 /\ "files" \in DOMAIN stdout[1]

\* A record carries parseError
HasParseError(record) == "parseError" \in DOMAIN record

\* The file at a path cannot be read or parsed, or an extractor raises on it
Fails(path) ==
    \/ fs[path].kind = "missing"
    \/ ~fs[path].parsed.ok
    \/ ~extract_classes(fs[path].parsed.val).ok
    \/ ~extract_functions(fs[path].parsed.val).ok

\* The text sub occurs in the text s
Contains(s, sub) == \E i \in 1..(Len(s) + 1) : SeqAt(s, i, sub)

\* C1: for every non-empty sequence of N input paths, the emitted files
\* array has exactly N elements and element i has filePath equal to input
\* path i, whatever mix of parseable, unparseable or unreadable files is
\* given.
C1_BatchContract ==
    (pc = "exited" /\ Len(GivenPaths) > 0) =>
        /\ PrintedFiles
        /\ Len(stdout[1].files) = Len(GivenPaths)
        /\ \A i \in 1..Len(GivenPaths) :
               stdout[1].files[i].filePath = GivenPaths[i]

\* A run of three or more paths has ended, with failed and parsed files
C1_Witness ==
    /\ pc = "exited"
    /\ Len(GivenPaths) > 2
    /\ PrintedFiles
    /\ \E i, j \in 1..Len(GivenPaths) :
           /\ HasParseError(stdout[1].files[i])
           /\ fs[GivenPaths[i]].kind = "missing"
           /\ ~HasParseError(stdout[1].files[j])

\* The record parse_file gives for a path when it is the only one of the
\* run: the failure record with the message of the first thing that fails,
\* or else the seven entries of the file
RecordAlone(path) ==
    LET file   == fs[path]
        parsed == file.parsed
        module == parsed.val
    IN  IF file.kind = "missing"
        THEN ErrorRecord(path, NoSuchFile(path))
        ELSE IF ~parsed.ok
        THEN ErrorRecord(path,
                 <<"Syntax", " ", "error", " ", "at", " ", "line", " ">>
                 \o Str(parsed.exc.lineno) \o <<":", " ">> \o parsed.exc.msg)
        ELSE IF ~extract_classes(module).ok
        THEN ErrorRecord(path, <<extract_classes(module).exc>>)
        ELSE IF ~extract_functions(module).ok
        THEN ErrorRecord(path, <<extract_functions(module).exc>>)
        ELSE [filePath |-> path,
              component |-> extract_component(module),
              actors |-> extract_actors(module),
              relationships |-> extract_relationships(module),
              classes |-> extract_classes(module).val,
              functions |-> extract_functions(module).val,
              types |-> extract_types(module),
              imports |-> extract_imports(module)]

\* C2: in a batch, the record produced for file i is identical to the
\* record parse_file produces for file i processed alone; a syntax error or
\* any other failure in another file never aborts the batch and never
\* changes the record of file i.
C2_ErrorIsolation ==
    /\ \A i \in 1..Len(files) : files[i] = RecordAlone(GivenPaths[i])
    /\ (pc = "exited" /\ Len(GivenPaths) > 0) =>
           /\ Len(files) = Len(GivenPaths)
           /\ status = Some(0)

\* A batch of three files has ended: the second has a syntax error, the
\* first and the third parsed
C2_Witness ==
    /\ pc = "exited"
    /\ Len(files) = 3
    /\ fs[GivenPaths[2]].kind = "text"
    /\ ~fs[GivenPaths[2]].parsed.ok
    /\ HasParseError(files[2])
    /\ ~HasParseError(files[1])
    /\ ~HasParseError(files[3])
    /\ Len(files[1].classes) > 0

\* C3: when parse_file fails on a file (syntax error, or any other
\* exception raised while reading or extracting), the returned record has
\* filePath set, component absent, the six lists empty and parseError set
\* (for a syntax error the message contains the line number and the parser
\* message); no partially extracted entity appears next to a parseError,
\* and a successful record never carries parseError.
C3_FailureRecord ==
    \A i \in 1..Len(files) :
        LET record == files[i]
            path   == GivenPaths[i]
        IN  /\ record.filePath = path
            /\ Fails(path) <=> HasParseError(record)
            /\ HasParseError(record) =>
                   /\ record.component = None
                   /\ record.actors = <<>>
                   /\ record.relationships = <<>>
                   /\ record.classes = <<>>
                   /\ record.functions = <<>>
                   /\ record.types = <<>>
                   /\ record.imports = <<>>
            /\ (fs[path].kind = "text" /\ ~fs[path].parsed.ok) =>
                   /\ HasParseError(record)
                   /\ \E n \in 1..Len(Numerals) :
                          Contains(record.parseError, <<Numerals[n]>>)
                   /\ Contains(record.parseError, fs[path].parsed.exc.msg)

\* C4: with zero path arguments main emits the error object and ends with
\* a non-zero outcome without emitting a files array; with one or more
\* paths it emits the files array and ends normally, however many of the
\* files carry parseError.
C4_InvocationOutcome ==
    pc = "exited" =>
        IF Len(GivenPaths) = 0
        THEN /\ stdout = <<[error |-> "No file paths provided"]>>
             /\ status # None
             /\ status # Some(0)
        ELSE /\ PrintedFiles
             /\ status = Some(0)

\* A run of two or more paths has ended and every file carries parseError
C4_Witness ==
    /\ pc = "exited"
    /\ Len(GivenPaths) > 1
    /\ PrintedFiles
    /\ status = Some(0)
    /\ \A i \in 1..Len(GivenPaths) : HasParseError(stdout[1].files[i])

\* The classes a module defines as direct statements of its body, as name
\* and line
TopLevelClasses(module) ==
    LET IsClass(node) == node.kind = "ClassDef"
        Key(node)     == [name |-> node.name, line |-> node.lineno]
    IN  Map(Key, SelectSeq(module.body, IsClass))

\* C10: the classes list of a file contains exactly the class definitions
\* that are direct statements of the module body; a class nested inside
\* another class or inside a function never appears in it.
C10_TopLevelClassesOnly ==
    \A i \in 1..Len(files) :
        ~HasParseError(files[i]) =>
            LET Key(entry) == [name |-> entry.name, line |-> entry.line]
            IN  Map(Key, files[i].classes)
                    = TopLevelClasses(fs[GivenPaths[i]].parsed.val)

Detected == docPc \in {"detected", "returned", "raised"} /\ Truthy(docstring)

\* The lines of the docstring given to parse
DocLines == Split(docstring[1], "\n")

\* The text holds a ":param <name>:" marker
HasParamMarker(text) ==
    \E i \in 1..Len(text) :
        /\ SeqAt(text, i, <<":", "param", " ">>)
        /\ WordAt(text, i + 3)
        /\ TokAt(text, i + 4, ":")

\* C5: the strategies are tried in the order Google, NumPy, Sphinx, Simple
\* and the first match wins; a comment that holds both an "Args:" header
\* line and a ":param x:" marker is parsed as Google, never as Sphinx,
\* wherever the "Args:" line sits (first, middle or last line).
C5_GoogleBeforeSphinx ==
    (/\ Detected
     /\ \E k \in 1..Len(DocLines) : Strip(DocLines[k]) = <<"Args", ":">>
     /\ HasParamMarker(docstring[1]))
        => style = "google"

\* C6: for each name of {Args, Arguments, Returns, Yields, Raises, Note,
\* Notes, Example, Examples, Attributes}, a comment holding a line made of
\* that name immediately followed by ":" and a newline is classified Google.
C6_GoogleHeaderSet ==
    \A name \in GoogleSectionKeywords :
        (/\ Detected
         /\ \E k \in 1..(Len(DocLines) - 1) :
                DocLines[k] = name \o <<":">>)
            => style = "google"

\* C7: for each name of {Parameters, Returns, Yields, Raises, See Also,
\* Notes, Examples, Attributes}, a comment not classified Google that holds
\* the name alone on a line immediately followed by a line of one or more
\* dashes is classified NumPy.
C7_NumpyHeaderSet ==
    \A name \in NumpySectionKeywords :
        (/\ Detected
         /\ style # "google"
         /\ \E k \in 1..(Len(DocLines) - 1) :
                /\ DocLines[k] = name
                /\ IsDashes(DocLines[k + 1]))
            => style = "numpy"

\* C8: parse is total: for every comment text it returns a DocModel with
\* the six fields summary, description, args, returns, raises, examples and
\* never raises, also when a section is present with a blank body.
C8_ParseTotal ==
    /\ docPc # "raised"
    /\ docPc = "returned" =>
           /\ parsedDoc # None
           /\ DOMAIN parsedDoc[1] = {"summary", "description", "args",
                                     "returns", "raises", "examples"}

\* C9: for an absent or empty comment parse returns, without an error, a
\* DocModel with summary, description, returns and examples absent and args
\* and raises empty.
C9_NoComment ==
    ~Truthy(docstring) =>
        /\ docPc \in {"call", "returned"}
        /\ docExc = None
        /\ docPc = "returned" =>
               /\ parsedDoc # None
               /\ parsedDoc[1].summary = None
               /\ parsedDoc[1].description = None
               /\ parsedDoc[1].returns = None
               /\ parsedDoc[1].examples = None
               /\ parsedDoc[1].args = <<>>
               /\ parsedDoc[1].raises = <<>>

\* C9 witness: parse has returned for an absent comment
C9_Witness == docstring = None /\ docPc = "returned"

(***************************************************************************)
(* Claims about the extractors (checked under TreeSpec)                    *)
(***************************************************************************)
\* The records of files that parse_file built from a tree
Extracted == {i \in 1..Len(files) : ~HasParseError(files[i])}

\* The tree that the i-th record was built from
TreeOf(i) == fs[GivenPaths[i]].parsed.val

\* <name> = NewType(...): a plain assignment to one name of a call to NewType
IsNewTypeAssignment(node) ==
    /\ node.kind = "Assign"
    /\ Len(node.targets) = 1
    /\ node.targets[1].kind = "Name"
    /\ node.value.kind = "Call"
    /\ node.value.func.kind = "Name"
    /\ node.value.func.id = <<"NewType">>

\* C11: every top-level plain assignment to a single name whose value is a
\* call to NewType yields a TypeEntity of category NewType with that name,
\* whose definition is the text of the call
C11_NewTypeRule ==
    \A i \in Extracted :
        \A k \in 1..Len(TreeOf(i).body) :
            LET node == TreeOf(i).body[k]
            IN  IsNewTypeAssignment(node) =>
                    \E e \in 1..Len(files[i].types) :
                        /\ files[i].types[e].name = node.targets[1].id
                        /\ files[i].types[e].category = <<"NewType">>
                        /\ files[i].types[e].definition
                               = Some(Unparse(node.value))

\* A class statement with a base whose name satisfies Named
HasBase(node, Named(_)) ==
    /\ node.kind = "ClassDef"
    /\ \E k \in 1..Len(node.bases) : Named(get_name(node.bases[k]))

\* The category of the first rule, in the order (a) to (f), that a statement
\* satisfies; None when it satisfies no rule
RuleOf(node) ==
    IF /\ node.kind = "AnnAssign"
       /\ node.annotation.src = <<"TypeAlias">>
    THEN Some(<<"TypeAlias">>)
    ELSE IF /\ node.kind = "Assign"
            /\ Len(node.targets) = 1
            /\ node.targets[1].kind = "Name"
            /\ node.targets[1].id[1] \in UpperInitial
            /\ node.value.kind \in {"Name", "Constant", "Subscript",
                                    "BinOp", "Attribute"}
    THEN Some(<<"TypeAlias">>)
    ELSE IF HasBase(node, LAMBDA bn : bn = <<"TypedDict">>)
    THEN Some(<<"TypedDict">>)
    ELSE IF HasBase(node, LAMBDA bn : \E j \in 1..Len(bn) :
                                          bn[j] \in HoldsProtocol)
    THEN Some(<<"Protocol">>)
    ELSE IF HasBase(node, LAMBDA bn : bn \in {<<"Enum">>, <<"IntEnum">>,
                                              <<"StrEnum">>})
    THEN Some(<<"Enum">>)
    ELSE IF IsNewTypeAssignment(node)
    THEN Some(<<"NewType">>)
    ELSE None

\* The name a statement gives to the type it declares
DeclaredName(node) ==
    IF node.kind = "ClassDef" THEN node.name
    ELSE IF node.kind = "AnnAssign" THEN node.target.id
    ELSE node.targets[1].id

\* C12: the types list holds, in the source order of the statements, one
\* entity for each top-level statement that satisfies a rule and none for
\* the others, and the category of the entity is that of the first rule,
\* in the order (a) to (f), that the statement satisfies
C12_FirstMatch ==
    \A i \in Extracted :
        LET classified ==
                SelectSeq(TreeOf(i).body, LAMBDA node : RuleOf(node) # None)
        IN  [e \in 1..Len(files[i].types) |->
                <<files[i].types[e].name, files[i].types[e].category,
                  files[i].types[e].line>>]
            = [k \in 1..Len(classified) |->
                <<DeclaredName(classified[k]), RuleOf(classified[k])[1],
                  classified[k].lineno>>]

\* C12 without rule (f): what holds of the statements that are no NewType
\* assignment
FirstMatchBeforeNewType ==
    \A i \in Extracted :
        LET classified ==
                SelectSeq(TreeOf(i).body,
                          LAMBDA node : /\ RuleOf(node) # None
                                        /\ ~IsNewTypeAssignment(node))
        IN  [e \in 1..Len(files[i].types) |->
                <<files[i].types[e].name, files[i].types[e].category,
                  files[i].types[e].line>>]
            = [k \in 1..Len(classified) |->
                <<DeclaredName(classified[k]), RuleOf(classified[k])[1],
                  classified[k].lineno>>]

\* The class statements of the module
TopLevelClassNodes(module) ==
    SelectSeq(module.body, LAMBDA node : node.kind = "ClassDef")

\* The entries of the i-th record for a class statement
ClassRecordsOf(i, node) ==
    {c \in 1..Len(files[i].classes) :
        /\ files[i].classes[c].name = node.name
        /\ files[i].classes[c].line = node.lineno}

\* The decorator lists of the functions called name in a class body, in
\* the order of their declaration
DeclarationsOf(class_node, name) ==
    LET named == SelectSeq(class_node.body,
                           LAMBDA node : /\ node.kind = "FunctionDef"
                                         /\ node.name = name)
    IN  [k \in 1..Len(named) |->
            [d \in 1..Len(named[k].decorator_list) |->
                named[k].decorator_list[d].src]]

\* The class declares @property <name>, then @<name>.setter, then
\* @<name>.deleter, and no other function of that name
DeclaresAccessors(class_node, name) ==
    DeclarationsOf(class_node, name)
        = <<(<<(<<"property">>)>>), (<<name \o <<".", "setter">> >>),
            (<<name \o <<".", "deleter">> >>)>>

\* The class declares @property <name> and no other function of that name
DeclaresGetterOnly(class_node, name) ==
    DeclarationsOf(class_node, name) = <<(<<(<<"property">>)>>)>>

\* The entries called name among the properties of a class record
PropertiesNamed(record, name) ==
    {p \in 1..Len(record.properties) : record.properties[p].name = name}

\* Exactly one property entry has the name, and it has these flags
OneProperty(record, name, hasSetter, hasDeleter, isReadonly) ==
    /\ Cardinality(PropertiesNamed(record, name)) = 1
    /\ \A p \in PropertiesNamed(record, name) :
           /\ record.properties[p].type = <<"property">>
           /\ record.properties[p].hasGetter
           /\ record.properties[p].hasSetter = hasSetter
           /\ record.properties[p].hasDeleter = hasDeleter
           /\ record.properties[p].isReadonly = isReadonly

\* C13: a class that declares @property x, then @x.setter, then @x.deleter
\* yields exactly one property entity x, of kind property, with hasGetter,
\* hasSetter and hasDeleter true and isReadonly false; a class that
\* declares only @property y yields one entity y with hasGetter true,
\* hasSetter and hasDeleter false and isReadonly true
C13_PropertyMerge ==
    \A i \in Extracted :
        \A k \in 1..Len(TopLevelClassNodes(TreeOf(i))) :
            LET node == TopLevelClassNodes(TreeOf(i))[k]
            IN  /\ ClassRecordsOf(i, node) # {}
                /\ \A c \in ClassRecordsOf(i, node) :
                       \A name \in {<<"x">>, <<"y">>} :
                           /\ DeclaresAccessors(node, name) =>
                                  OneProperty(files[i].classes[c], name,
                                              TRUE, TRUE, FALSE)
                           /\ DeclaresGetterOnly(node, name) =>
                                  OneProperty(files[i].classes[c], name,
                                              FALSE, FALSE, TRUE)

\* C13, witness: the record of a class that declares the three accessors of
\* x has been built, with a property x whose three flags are set
C13_Witness ==
    \E i \in Extracted :
        \E k \in 1..Len(TopLevelClassNodes(TreeOf(i))) :
            LET node == TopLevelClassNodes(TreeOf(i))[k]
            IN  /\ DeclaresAccessors(node, <<"x">>)
                /\ \E c \in ClassRecordsOf(i, node) :
                       \E p \in PropertiesNamed(files[i].classes[c], <<"x">>) :
                           /\ files[i].classes[c].properties[p].hasSetter
                           /\ files[i].classes[c].properties[p].hasDeleter

\* C14: for every property entity of a class record, of kind property or
\* class_variable, isReadonly equals (hasGetter and not hasSetter)
C14_ReadonlyInvariant ==
    \A i \in Extracted :
        \A c \in 1..Len(files[i].classes) :
            \A p \in 1..Len(files[i].classes[c].properties) :
                LET prop == files[i].classes[c].properties[p]
                IN  /\ prop.type \in {<<"property">>, <<"class_variable">>}
                    /\ prop.isReadonly = (prop.hasGetter /\ ~prop.hasSetter)

\* C14, witness: a class record holds a property with a setter and a
\* class variable
C14_Witness ==
    \E i \in Extracted :
        \E c \in 1..Len(files[i].classes) :
            LET props == files[i].classes[c].properties
            IN  /\ \E p \in 1..Len(props) :
                       props[p].type = <<"property">> /\ props[p].hasSetter
                /\ \E p \in 1..Len(props) :
                       props[p].type = <<"class_variable">>

\* The names the claim gives to the parameters of a function node: the
\* regular parameters in order, then *args, then **kwargs; for a method,
\* without its first parameter when that one binds the instance or class
DeclaredParameterNames(node, isMethod) ==
    LET regular == [k \in 1..Len(node.args.args) |-> node.args.args[k].arg]
        bound   == /\ isMethod
                   /\ regular # <<>>
                   /\ regular[1] \in {<<"self">>, <<"cls">>}
    IN  (IF bound THEN Tail(regular) ELSE regular)
        \o (IF node.args.vararg # None
            THEN <<(<<"*">> \o node.args.vararg[1].arg)>> ELSE <<>>)
        \o (IF node.args.kwarg # None
            THEN <<(<<"*", "*">> \o node.args.kwarg[1].arg)>> ELSE <<>>)

\* The names of a parameters list
ParameterNames(parameters) ==
    [k \in 1..Len(parameters) |-> parameters[k].name]

\* Some entry of a functions or methods list stands for the node and has
\* exactly these parameter names
HasParameters(entries, node, names) ==
    \E e \in 1..Len(entries) :
        /\ entries[e].name = node.name
        /\ entries[e].line = node.lineno
        /\ ParameterNames(entries[e].parameters) = names

\* C15: a function or method declared with parameters p1, p2, *args,
\* **kwargs yields exactly the names p1, p2, *args, **kwargs in that order,
\* and the first self/class-binding parameter of a method is not among them
C15_ParameterOrder ==
    \A i \in Extracted :
        /\ \A k \in 1..Len(TreeOf(i).body) :
               LET node == TreeOf(i).body[k]
               IN  IsFunction(node) =>
                       HasParameters(files[i].functions, node,
                                     DeclaredParameterNames(node, FALSE))
        /\ \A k \in 1..Len(TopLevelClassNodes(TreeOf(i))) :
               LET class_node == TopLevelClassNodes(TreeOf(i))[k]
               IN  \A c \in ClassRecordsOf(i, class_node) :
                       \A m \in 1..Len(class_node.body) :
                           IsFunction(class_node.body[m]) =>
                               HasParameters(
                                   files[i].classes[c].methods,
                                   class_node.body[m],
                                   DeclaredParameterNames(class_node.body[m],
                                                          TRUE))

\* The entries of a list follow the lines of their declarations
InLineOrder(entries) ==
    \A a, b \in 1..Len(entries) :
        entries[a].line < entries[b].line => a < b

\* sub is seq with some of its elements left out
RECURSIVE IsSubsequence(_, _)
IsSubsequence(sub, seq) ==
    IF sub = <<>> THEN TRUE
    ELSE IF seq = <<>> THEN FALSE
    ELSE IF Head(sub) = Head(seq) THEN IsSubsequence(Tail(sub), Tail(seq))
    ELSE IsSubsequence(sub, Tail(seq))

\* The modules named by the import statements of a body, in source order
RECURSIVE DeclaredImports(_)
DeclaredImports(body) ==
    IF body = <<>> THEN <<>>
    ELSE (IF Head(body).kind = "Import"
          THEN [k \in 1..Len(Head(body).names) |-> Head(body).names[k].name]
          ELSE IF Head(body).kind = "ImportFrom"
          THEN <<IF Head(body).module # None THEN Head(body).module[1]
                 ELSE <<>> >>
          ELSE <<>>)
         \o DeclaredImports(Tail(body))

\* The parameters of every entry of a functions or methods list are in the
\* order of the signature of the function node the entry stands for
ParametersInOrder(entries, nodes) ==
    \A e \in 1..Len(entries) :
        \A k \in 1..Len(nodes) :
            (/\ IsFunction(nodes[k])
             /\ nodes[k].name = entries[e].name
             /\ nodes[k].lineno = entries[e].line)
            => IsSubsequence(ParameterNames(entries[e].parameters),
                             DeclaredParameterNames(nodes[k], FALSE))

\* The one-token names of a list of actors or relationships
SingleTokens(names) == [k \in 1..Len(names) |-> names[k][1]]

\* C16: in every list of a record (classes, the methods and the properties
\* of a class, functions, types, imports, parameters, actors,
\* relationships) an entry declared earlier in the source comes earlier
C16_DeclarationOrder ==
    \A i \in Extracted :
        /\ InLineOrder(files[i].classes)
        /\ InLineOrder(files[i].functions)
        /\ InLineOrder(files[i].types)
        /\ \A c \in 1..Len(files[i].classes) :
               /\ InLineOrder(files[i].classes[c].methods)
               /\ InLineOrder(files[i].classes[c].properties)
        /\ IsSubsequence([k \in 1..Len(files[i].imports) |->
                             files[i].imports[k].source],
                         DeclaredImports(TreeOf(i).body))
        /\ ParametersInOrder(files[i].functions, TreeOf(i).body)
        /\ \A k \in 1..Len(TopLevelClassNodes(TreeOf(i))) :
               \A c \in ClassRecordsOf(i, TopLevelClassNodes(TreeOf(i))[k]) :
                   ParametersInOrder(files[i].classes[c].methods,
                                     TopLevelClassNodes(TreeOf(i))[k].body)
        /\ TreeOf(i).doc # None =>
               /\ IsSubsequence(
                      SingleTokens([k \in 1..Len(files[i].actors) |->
                                       files[i].actors[k].name]),
                      TreeOf(i).doc[1])
               /\ IsSubsequence(
                      SingleTokens([k \in 1..Len(files[i].relationships) |->
                                       files[i].relationships[k].target]),
                      TreeOf(i).doc[1])

\* C16 for every list but the properties of a class
OrderOutsideProperties ==
    \A i \in Extracted :
        /\ InLineOrder(files[i].classes)
        /\ InLineOrder(files[i].functions)
        /\ InLineOrder(files[i].types)
        /\ \A c \in 1..Len(files[i].classes) :
               InLineOrder(files[i].classes[c].methods)
        /\ IsSubsequence([k \in 1..Len(files[i].imports) |->
                             files[i].imports[k].source],
                         DeclaredImports(TreeOf(i).body))
        /\ ParametersInOrder(files[i].functions, TreeOf(i).body)

\* The places of a module comment where @<tag> stands with a name after it:
\* the tag, white space, then a token
TagPlaces(s, tag) ==
    {i \in 1..Len(s) :
        /\ s[i] = "@"
        /\ i + 2 <= Len(s)
        /\ s[i + 1] = tag
        /\ s[i + 2] \in Space
        /\ \E j \in (i + 3)..Len(s) : s[j] \notin Space}

\* The token after the tag at place i: the text from the first character
\* after the white space to the next white space
TokenAfter(s, i) ==
    LET first == Min({j \in (i + 3)..Len(s) : s[j] \notin Space})
        later == {j \in first..Len(s) : s[j] \in Space}
    IN  SubSeq(s, first, IF later = {} THEN Len(s) ELSE Min(later) - 1)

\* The comment text before the first @, trimmed; None when it is empty
TextBeforeTags(s) ==
    LET before == Strip(SubSeq(s, 1, Min({i \in 1..Len(s) : s[i] = "@"}) - 1))
    IN  IF before = <<>> THEN None ELSE Some(before)

\* The component the claim gives to a module comment (None without one)
SelectedComponent(doc) ==
    LET s == doc[1]
        Selected(tag) ==
            Some([name |-> TokenAfter(s, Min(TagPlaces(s, tag))),
                  description |-> TextBeforeTags(s)])
    IN  IF doc = None THEN None
        ELSE IF TagPlaces(s, "module") # {} THEN Selected("module")
        ELSE IF TagPlaces(s, "component") # {} THEN Selected("component")
        ELSE IF TagPlaces(s, "namespace") # {} THEN Selected("namespace")
        ELSE None

RECURSIVE Ascending(_)
Ascending(S) ==
    IF S = {} THEN <<>> ELSE <<Min(S)>> \o Ascending(S \ {Min(S)})

\* The place after the token that follows the tag at place i
AfterToken(s, i) ==
    LET first == Min({j \in (i + 3)..Len(s) : s[j] \notin Space})
    IN  first + Len(TokenAfter(s, i))

\* The first place from i on that holds no white space
PastSpaces(s, i) ==
    Min({j \in i..(Len(s) + 1) : j > Len(s) \/ s[j] \notin Space})

\* "{" word "}" stands at place i, the word being one of words
BracketAt(s, i, words) ==
    /\ i + 2 <= Len(s)
    /\ s[i] = "{"
    /\ s[i + 1] \in words
    /\ s[i + 2] = "}"

\* The text from place i up to the next @ or the end of the comment,
\* trimmed; None when it is empty
TextUpToTag(s, i) ==
    LET text == Strip(SubSeq(s, i,
                    Min({j \in i..(Len(s) + 1) :
                            j > Len(s) \/ s[j] = "@"}) - 1))
    IN  IF text = <<>> THEN None ELSE Some(text)

\* The places of well-formed @actor tags: @actor, a name, white space and
\* {Person} or {System}
ActorPlaces(s) ==
    {i \in TagPlaces(s, "actor") :
        /\ PastSpaces(s, AfterToken(s, i)) > AfterToken(s, i)
        /\ BracketAt(s, PastSpaces(s, AfterToken(s, i)),
                     {"Person", "System"})}

\* The actor the claim gives to the well-formed tag at place i
ActorAt(s, i) ==
    LET type  == PastSpaces(s, AfterToken(s, i))
        dir   == PastSpaces(s, type + 3)
        given == BracketAt(s, dir, {"in", "out", "both"})
    IN  [name |-> TokenAfter(s, i),
         type |-> <<s[type + 1]>>,
         direction |-> IF given THEN <<s[dir + 1]>> ELSE <<"both">>,
         description |-> TextUpToTag(s, IF given THEN dir + 3 ELSE dir)]

\* The relationship the claim gives to the @uses tag at place i
RelationshipAt(s, i) ==
    [target |-> TokenAfter(s, i),
     description |-> TextUpToTag(s, AfterToken(s, i))]

\* C18: the actors of a record are the actors of the well-formed @actor
\* tags of the module comment, one for each, in textual order, and its
\* relationships those of the @uses tags; a description is the text up to
\* the next @ or the end of the comment, absent when empty, and the
\* direction is both when no direction bracket is given
C18_ActorAndUsesTags ==
    \A i \in Extracted :
        TreeOf(i).doc # None =>
            LET s == TreeOf(i).doc[1]
            IN  /\ files[i].actors
                       = [k \in 1..Cardinality(ActorPlaces(s)) |->
                             ActorAt(s, Ascending(ActorPlaces(s))[k])]
                /\ files[i].relationships
                       = [k \in 1..Cardinality(TagPlaces(s, "uses")) |->
                             RelationshipAt(s,
                                 Ascending(TagPlaces(s, "uses"))[k])]

\* The comment has no tag whose name or target is itself a tag
NoTagAsToken(s) ==
    \A tag \in {"actor", "uses"} :
        \A i \in TagPlaces(s, tag) : TokenAfter(s, i)[1] # "@"

\* C18 on the comments where no tag name or target is itself a tag
TagsWithPlainTokens ==
    \A i \in Extracted :
        (TreeOf(i).doc # None /\ NoTagAsToken(TreeOf(i).doc[1])) =>
            LET s == TreeOf(i).doc[1]
            IN  /\ files[i].actors
                       = [k \in 1..Cardinality(ActorPlaces(s)) |->
                             ActorAt(s, Ascending(ActorPlaces(s))[k])]
                /\ files[i].relationships
                       = [k \in 1..Cardinality(TagPlaces(s, "uses")) |->
                             RelationshipAt(s,
                                 Ascending(TagPlaces(s, "uses"))[k])]

\* C20: every entry of the classes list holds, next to the raw docstring,
\* the documentation record that parse gives for it (the all-empty record
\* when the class has no docstring)
C20_ClassParsedDoc ==
    \A i \in Extracted :
        \A c \in 1..Len(files[i].classes) :
            /\ "docstring" \in DOMAIN files[i].classes[c]
            /\ "parsedDoc" \in DOMAIN files[i].classes[c]
            /\ Return(files[i].classes[c].parsedDoc)
                   = parse(files[i].classes[c].docstring)

\* What C20 says of classes holds of methods and functions
MethodsAndFunctionsParsedDoc ==
    \A i \in Extracted :
        /\ \A f \in 1..Len(files[i].functions) :
               Return(files[i].functions[f].parsedDoc)
                   = parse(files[i].functions[f].docstring)
        /\ \A c \in 1..Len(files[i].classes) :
               \A m \in 1..Len(files[i].classes[c].methods) :
                   Return(files[i].classes[c].methods[m].parsedDoc)
                       = parse(files[i].classes[c].methods[m].docstring)


(***************************************************************************)
(* Claims about the section splitters and the field parsers (checked       *)
(* under DocSpec)                                                          *)
(***************************************************************************)
\* The call of _parse_google or _parse_numpy has ended
Split_Done == docPc \in {"returned", "raised"} /\ sections # None

\* No line of the comment ends with two colons (such lines are C29's case)
NoDoubleColon(lines) ==
    \A i \in 1..Len(lines) :
        LET line == Strip(lines[i])
        IN  ~(Len(line) >= 2 /\ line[Len(line)] = ":"
                             /\ line[Len(line) - 1] = ":")

\* A line made of dashes only
DashLine(line) ==
    Strip(line) # <<>> /\ \A k \in 1..Len(Strip(line)) : Strip(line)[k] = "-"

\* The places of the lines that open the section `name`, as the
\* documentation describes headers: for Google the trimmed line is the name
\* and one colon, for NumPy the trimmed line is the name and the next line
\* is made of dashes
HeaderPlaces(lines, name) ==
    IF style = "google"
    THEN {i \in 1..Len(lines) :
              /\ name \in GoogleSectionKeywords
              /\ Strip(lines[i]) = name \o <<":">>}
    ELSE {i \in 1..(Len(lines) - 1) :
              /\ name \in NumpySectionKeywords
              /\ Strip(lines[i]) = name
              /\ DashLine(lines[i + 1])}

AllHeaderPlaces(lines) == UNION {HeaderPlaces(lines, name) : name \in HeaderNames}

\* The lines of the section opened at place i: those after the header (and
\* after its line of dashes) up to the next header or the end
BodyLines(lines, i) ==
    LET first == IF style = "google" THEN i + 1 ELSE i + 2
        later == {j \in AllHeaderPlaces(lines) : j > i}
        last  == IF later = {} THEN Len(lines) ELSE Min(later) - 1
    IN  [k \in 1..(last - first + 1) |-> lines[first + k - 1]]

\* The text recorded for the section opened at place i
BodyText(lines, i) == Strip(Join(BodyLines(lines, i), "\n"))

\* C21: when a section name occurs as a header more than once, the body
\* recorded for the name is the body of its last occurrence, an empty one
\* included.
C21_LastOccurrenceWins ==
    Split_Done =>
        \A name \in HeaderNames :
            Cardinality(HeaderPlaces(DocLines, name)) >= 2 =>
                Get(sections[1], name) =
                    Some(BodyText(DocLines, Max(HeaderPlaces(DocLines, name))))

\* C21 for sections whose last occurrence has at least one line below it
C21_LastNonEmptyOccurrenceWins ==
    (Split_Done /\ NoDoubleColon(DocLines)) =>
        \A name \in HeaderNames :
            /\ Cardinality(HeaderPlaces(DocLines, name)) >= 2
            /\ BodyLines(DocLines, Max(HeaderPlaces(DocLines, name))) # <<>>
            => Get(sections[1], name) =
                   Some(BodyText(DocLines, Max(HeaderPlaces(DocLines, name))))

\* The lines before the first section header
PreHeaderRegion(lines) ==
    IF AllHeaderPlaces(lines) = {} THEN lines
    ELSE Take(lines, Min(AllHeaderPlaces(lines)) - 1)

BlankPlaces(region) == {i \in 1..Len(region) : Strip(region[i]) = <<>>}

\* summary and description are cut at the first blank line of the region
CutAtFirstBlank(region) ==
    IF BlankPlaces(region) = {}
    THEN /\ Get(sections[1], <<"summary">>) = Some(Strip(Join(region, " ")))
         /\ Get(sections[1], <<"description">>) = None
    ELSE LET b == Min(BlankPlaces(region))
         IN  /\ Get(sections[1], <<"summary">>) =
                    Some(Strip(Join(Take(region, b - 1), " ")))
             /\ Get(sections[1], <<"description">>) =
                    Some(Strip(Join(Drop(region, b), " ")))

\* C22: the region before the first header is cut at its first blank line
\* into summary and description; without a blank line it is all summary
\* and there is no description.
C22_PreHeaderSplit ==
    (Split_Done /\ PreHeaderRegion(DocLines) # <<>>) =>
        CutAtFirstBlank(PreHeaderRegion(DocLines))

\* C22 for regions whose first line is not blank
C22_PreHeaderSplitAfterText ==
    (/\ Split_Done
     /\ PreHeaderRegion(DocLines) # <<>>
     /\ Strip(PreHeaderRegion(DocLines)[1]) # <<>>) =>
        CutAtFirstBlank(PreHeaderRegion(DocLines))

\* _parse_google has returned a record for a comment with a Returns section
Returns_Parsed ==
    /\ docPc = "returned"
    /\ style = "google"
    /\ sections # None
    /\ <<"Returns">> \in DOMAIN sections[1]

\* The place of the colon that follows the leading token of text, or 0
LeadingColon(text) ==
    IF WordAt(text, 1) /\ TokAt(text, SkipSpaces(text, 2), ":")
    THEN SkipSpaces(text, 2) ELSE 0

\* The returns record the documentation describes for a Returns text
ReturnsOf(text) ==
    IF LeadingColon(text) > 0
    THEN [type |-> Some(<<text[1]>>),
          description |-> Some(Strip(Drop(text, LeadingColon(text))))]
    ELSE [type |-> None, description |-> Some(text)]

\* C23: a Returns text that starts with a token and a colon gives that
\* token as type and the trimmed rest as description; any other text gives
\* no type and the whole text as description.
C23_GoogleReturns ==
    Returns_Parsed =>
        parsedDoc[1].returns = Some(ReturnsOf(sections[1][<<"Returns">>]))

\* C23 for texts that have something after the colon, or no leading token
C23_GoogleReturnsWithText ==
    (/\ Returns_Parsed
     /\ LET text == sections[1][<<"Returns">>]
        IN  LeadingColon(text) > 0 => LeadingColon(text) < Len(text)) =>
        parsedDoc[1].returns = Some(ReturnsOf(sections[1][<<"Returns">>]))

\* _parse_numpy has returned a record for a comment with a Parameters
\* section
Parameters_Parsed ==
    /\ docPc = "returned"
    /\ style = "numpy"
    /\ sections # None
    /\ <<"Parameters">> \in DOMAIN sections[1]

ParameterLines == Split(sections[1][<<"Parameters">>], "\n")

NonBlank(line) == Strip(line) # <<>>

\* The places of the low-indentation lines of a Parameters body
EntryPlaces(lines) ==
    {i \in 1..Len(lines) : NonBlank(lines[i]) /\ ~StartsWithSpaces(lines[i], 4)}

\* The k-th place of a set of places
NthPlace(places, k) ==
    CHOOSE i \in places : Cardinality({j \in places : j < i}) = k - 1

TrimEach(lines) == [k \in 1..Len(lines) |-> Strip(lines[k])]

\* The entry the documentation describes for the low-indentation line at
\* place i: name and type around the first colon, the indented lines below
\* it as description
EntryOfLine(lines, i) ==
    LET line   == Strip(lines[i])
        colons == {k \in 1..Len(line) : line[k] = ":"}
        later  == {j \in EntryPlaces(lines) : j > i}
        last   == IF later = {} THEN Len(lines) ELSE Min(later) - 1
    IN  [name |-> IF colons = {} THEN line
                  ELSE Strip(Take(line, Min(colons) - 1)),
         type |-> IF colons = {} THEN None
                  ELSE Some(Strip(Drop(line, Min(colons)))),
         description |->
             Join(TrimEach(SelectSeq(SubSeq(lines, i + 1, last), NonBlank)),
                  " ")]

EntriesOf(lines) ==
    [k \in 1..Cardinality(EntryPlaces(lines)) |->
        EntryOfLine(lines, NthPlace(EntryPlaces(lines), k))]

\* C24: every low-indentation line of a NumPy Parameters body opens an
\* entry (name before the first colon, type after it or absent), the
\* indented lines below it are its description, and the entries keep the
\* order of the lines.
C24_NumpyParameters ==
    Parameters_Parsed => parsedDoc[1].args = EntriesOf(ParameterLines)

\* C24 for bodies whose low-indentation lines all hold a colon
C24_NumpyTypedParameters ==
    (/\ Parameters_Parsed
     /\ \A i \in EntryPlaces(ParameterLines) :
            \E k \in 1..Len(ParameterLines[i]) : ParameterLines[i][k] = ":")
    => parsedDoc[1].args = EntriesOf(ParameterLines)

\* _parse_sphinx has returned a record
Sphinx_Parsed == docPc = "returned" /\ style = "sphinx"

\* Line i is a field ":kind name: text"
NamedFieldAt(lines, i, kind, name) ==
    /\ Len(lines[i]) > 5
    /\ SubSeq(lines[i], 1, 5) = <<":", kind, " ", name, ":">>
    /\ NonBlank(Drop(lines[i], 5))

\* Line i is a field ":kind: text" for a kind of kinds
PlainFieldAt(lines, i, kinds) ==
    /\ Len(lines[i]) > 3
    /\ lines[i][1] = ":" /\ lines[i][2] \in kinds /\ lines[i][3] = ":"
    /\ NonBlank(Drop(lines[i], 3))

NamedFieldPlaces(lines, kind, name) ==
    {i \in 1..Len(lines) : NamedFieldAt(lines, i, kind, name)}

PlainFieldPlaces(lines, kinds) ==
    {i \in 1..Len(lines) : PlainFieldAt(lines, i, kinds)}

\* The parameter names the inputs document
DocumentedNames == {"x"}

\* The entries of args for the parameter name
ArgsNamed(name) ==
    {k \in 1..Len(parsedDoc[1].args) : parsedDoc[1].args[k].name = <<name>>}

\* Every entry of name has the type of the :type line of name at place t
TypeBackFilled(lines, name, t) ==
    /\ ArgsNamed(name) # {}
    /\ \A k \in ArgsNamed(name) :
           parsedDoc[1].args[k].type = Some(Strip(Drop(lines[t], 5)))

\* One returns record holds the text of the :rtype: line at place t and the
\* text of a :returns: line
ReturnsFilled(lines, t) ==
    /\ parsedDoc[1].returns # None
    /\ Get(parsedDoc[1].returns[1], "type") =
           Some(Some(Strip(Drop(lines[t], 3))))
    /\ \E d \in PlainFieldPlaces(lines, {"return", "returns"}) :
           Get(parsedDoc[1].returns[1], "description") =
               Some(Some(Strip(Drop(lines[d], 3))))

\* C25: a parameter that has a :param line and a :type line gets the type
\* of the :type line whichever of the two lines comes first, and a
\* :returns: line and a :rtype: line fill one returns record in either
\* order.
C25_TypeBackFilling ==
    Sphinx_Parsed =>
        /\ \A name \in DocumentedNames :
               \A t \in NamedFieldPlaces(DocLines, "type", name) :
                   NamedFieldPlaces(DocLines, "param", name) # {} =>
                       TypeBackFilled(DocLines, name, t)
        /\ \A t \in PlainFieldPlaces(DocLines, {"rtype"}) :
               PlainFieldPlaces(DocLines, {"return", "returns"}) # {} =>
                   ReturnsFilled(DocLines, t)

\* C25 witness: the :type line comes before the :param line, the :rtype:
\* line before the :returns: line, and both types are filled in
C25_Witness ==
    /\ Sphinx_Parsed
    /\ \E t \in NamedFieldPlaces(DocLines, "type", "x") :
           /\ \E p \in NamedFieldPlaces(DocLines, "param", "x") : t < p
           /\ TypeBackFilled(DocLines, "x", t)
    /\ \E t \in PlainFieldPlaces(DocLines, {"rtype"}) :
           /\ \E d \in PlainFieldPlaces(DocLines, {"return", "returns"}) :
                  t < d
           /\ ReturnsFilled(DocLines, t)

\* C30: after parsing a Sphinx comment, args holds at most one entry per
\* parameter name; a second :param line of a name updates the entry.
C30_UniqueSphinxParams ==
    Sphinx_Parsed =>
        \A k1, k2 \in 1..Len(parsedDoc[1].args) :
            parsedDoc[1].args[k1].name = parsedDoc[1].args[k2].name => k1 = k2

\* Every :param line of a name gives an entry of its own, in line order
C30_OneEntryPerParamLine ==
    Sphinx_Parsed =>
        \A name \in DocumentedNames :
            Cardinality(ArgsNamed(name)) =
                Cardinality(NamedFieldPlaces(DocLines, "param", name))

\* The section splitter of the chosen style recognizes a header in lines
RecognizesHeader(lines) ==
    \E i \in 1..Len(lines) :
        IF style = "google" THEN IsGoogleHeader(Strip(lines[i]))
        ELSE IsNumpyHeader(lines, i)

\* C28: whenever the classifier selects Google or NumPy, the section
\* splitter of that style recognizes at least one section header in the
\* comment.
C28_ClassifierAndSplitterAgree ==
    (Detected /\ style \in {"google", "numpy"}) => RecognizesHeader(DocLines)

\* C28 for the Google style alone
C28_GoogleClassifierAndSplitterAgree ==
    (Detected /\ style = "google") => RecognizesHeader(DocLines)

\* The names that have a header in lines
HeaderNamesIn(lines) == {name \in HeaderNames : HeaderPlaces(lines, name) # {}}

\* _parse_google has called its splitter
Google_Split == Split_Done /\ style = "google"

\* The sections recorded are those of the header lines, each with the lines
\* below its header up to the next header.  Names with several headers and
\* headers with no line below them are left to C21.
SectionsFollowHeaders(lines) ==
    /\ DOMAIN sections[1] \subseteq
           {<<"summary">>, <<"description">>} \cup HeaderNamesIn(lines)
    /\ \A name \in HeaderNamesIn(lines) :
           /\ Cardinality(HeaderPlaces(lines, name)) = 1
           /\ BodyLines(lines, Max(HeaderPlaces(lines, name))) # <<>>
           => Get(sections[1], name) =
                  Some(BodyText(lines, Max(HeaderPlaces(lines, name))))

\* C29: the Google splitter takes a line for a header exactly when the
\* trimmed line is a known section name and one colon; any other line is
\* body text of the current section, and the body of a section is all the
\* lines up to the next header or the end.
C29_GoogleHeaderExact == Google_Split => SectionsFollowHeaders(DocLines)

\* C29 for comments without a line that ends with two colons
C29_GoogleHeaderOneColon ==
    (Google_Split /\ NoDoubleColon(DocLines)) =>
        SectionsFollowHeaders(DocLines)

(***************************************************************************)
(* Claims about accessors and parameters (checked under TreeSpec)          *)
(***************************************************************************)
\* Some method of the class carries the decorator
HasDecoratedMethod(class_node, decorator) ==
    \E m \in 1..Len(class_node.body) :
        /\ class_node.body[m].kind = "FunctionDef"
        /\ \E d \in 1..Len(class_node.body[m].decorator_list) :
               class_node.body[m].decorator_list[d].src = decorator

\* The names that have an @property method in the class
PropertyNames(class_node) ==
    {name \in {<<"x">>, <<"y">>} :
        \E k \in 1..Len(DeclarationsOf(class_node, name)) :
            \E d \in 1..Len(DeclarationsOf(class_node, name)[k]) :
                DeclarationsOf(class_node, name)[k][d] = <<"property">>}

\* The single property entry of name has the flags of the decorators the
\* class holds for it
FlagsFollowDecorators(record, class_node, name) ==
    /\ Cardinality(PropertiesNamed(record, name)) = 1
    /\ \A p \in PropertiesNamed(record, name) :
           /\ record.properties[p].hasSetter =
                  HasDecoratedMethod(class_node, name \o <<".", "setter">>)
           /\ record.properties[p].hasDeleter =
                  HasDecoratedMethod(class_node, name \o <<".", "deleter">>)

\* C26: for every name that has an @property method, hasSetter and
\* hasDeleter of its single property entry are true exactly when some
\* method of the class is decorated <name>.setter, resp. <name>.deleter,
\* wherever the accessors sit in the class body.
C26_AccessorFlags ==
    \A i \in Extracted :
        \A k \in 1..Len(TopLevelClassNodes(TreeOf(i))) :
            LET node == TopLevelClassNodes(TreeOf(i))[k]
            IN  \A c \in ClassRecordsOf(i, node) :
                    \A name \in PropertyNames(node) :
                        FlagsFollowDecorators(files[i].classes[c], node, name)

\* The first function of the class that has name or decorates with it is
\* the @property getter, and no later one is
GetterComesFirst(class_node, name) ==
    LET decls == DeclarationsOf(class_node, name)
    IN  /\ decls # <<>>
        /\ decls[1] = <<(<<"property">>)>>
        /\ \A k \in 2..Len(decls) : decls[k] # <<(<<"property">>)>>

\* C26 for classes that declare the getter once, before the other accessors
C26_AccessorFlagsAfterGetter ==
    \A i \in Extracted :
        \A k \in 1..Len(TopLevelClassNodes(TreeOf(i))) :
            LET node == TopLevelClassNodes(TreeOf(i))[k]
            IN  \A c \in ClassRecordsOf(i, node) :
                    \A name \in PropertyNames(node) :
                        GetterComesFirst(node, name) =>
                            FlagsFollowDecorators(files[i].classes[c], node,
                                                  name)

ArgNames(args) == [k \in 1..Len(args) |-> args[k].arg]

\* Every parameter a function node declares, in declaration order:
\* positional-only, regular, *args, keyword-only, **kwargs; for a method,
\* without its first parameter when that one binds the instance or class
AllDeclaredParameters(node, isMethod) ==
    LET positional == ArgNames(node.args.posonlyargs)
                          \o ArgNames(node.args.args)
        bound      == /\ isMethod
                      /\ positional # <<>>
                      /\ positional[1] \in {<<"self">>, <<"cls">>}
    IN  (IF bound THEN Tail(positional) ELSE positional)
        \o (IF node.args.vararg # None
            THEN <<(<<"*">> \o node.args.vararg[1].arg)>> ELSE <<>>)
        \o ArgNames(node.args.kwonlyargs)
        \o (IF node.args.kwarg # None
            THEN <<(<<"*", "*">> \o node.args.kwarg[1].arg)>> ELSE <<>>)

\* The parameter lists of the functions and methods of the i-th record are
\* complete for the nodes that satisfy Covered
ParametersComplete(i, Covered(_, _)) ==
    /\ \A k \in 1..Len(TreeOf(i).body) :
           LET node == TreeOf(i).body[k]
           IN  (IsFunction(node) /\ Covered(node, FALSE)) =>
                   HasParameters(files[i].functions, node,
                                 AllDeclaredParameters(node, FALSE))
    /\ \A k \in 1..Len(TopLevelClassNodes(TreeOf(i))) :
           LET class_node == TopLevelClassNodes(TreeOf(i))[k]
           IN  \A c \in ClassRecordsOf(i, class_node) :
                   \A m \in 1..Len(class_node.body) :
                       (/\ IsFunction(class_node.body[m])
                        /\ Covered(class_node.body[m], TRUE)) =>
                           HasParameters(
                               files[i].classes[c].methods,
                               class_node.body[m],
                               AllDeclaredParameters(class_node.body[m],
                                                     TRUE))

AnyFunction(node, isMethod) == TRUE

\* The node has regular parameters, *args and **kwargs only, and none but
\* the first parameter of a method is called self or cls
PlainParameters(node, isMethod) ==
    /\ node.args.posonlyargs = <<>>
    /\ node.args.kwonlyargs = <<>>
    /\ \A k \in 1..Len(node.args.args) :
           node.args.args[k].arg \in {<<"self">>, <<"cls">>} =>
               isMethod /\ k = 1

\* C27: the parameter list of a function or method holds every declared
\* parameter exactly once, in declaration order, positional-only and
\* keyword-only parameters and parameters called self or cls included;
\* only the first self/class-binding parameter of a method is left out.
C27_ParameterCompleteness ==
    \A i \in Extracted : ParametersComplete(i, AnyFunction)

\* C27 for functions with regular parameters, *args and **kwargs whose
\* names are not self or cls
C27_PlainParameterCompleteness ==
    \A i \in Extracted : ParametersComplete(i, PlainParameters)
=============================================================================
